---- MODULE Spec2Model ----
(***************************************************************************)
(* A model of the lysai decision loop: the Policy Engine                   *)
(* (agents/orchestrator.py), the graph that routes its decisions to the    *)
(* stage operations (graphs/lysai_graph.py), the stage operations and the  *)
(* Run State they share (core/state.py).                                   *)
(*                                                                         *)
(* Python values are kept with their type, because the code branches on   *)
(* it (isinstance, truthiness, .get on a mapping, .strip on text):         *)
(*   None -> [none |-> TRUE]      "abc"  -> [str  |-> "abc"]              *)
(*   5    -> [int  |-> 5]         [a, b] -> [list |-> <<a, b>>]           *)
(*   {"k": v} -> [dict |-> [k |-> v]]                                      *)
(* A call that raises yields [raise |-> <exception type>], a call that     *)
(* returns v yields [ret |-> v].                                           *)
(***************************************************************************)
EXTENDS Integers, Sequences, FiniteSets, TLC

VARIABLES
    state,        \* the AgentState threaded through the graph
    pc,           \* the graph node that runs next, "END", or "raised"
    raised,       \* the exception that ended the run: [node, type], or PyNone
    consulted,    \* what the latest orchestrator_node invocation called
    invocations,  \* orchestrator_node invocations made in this run
    episodes,     \* the episodes table of the Episodic Store, row i has id i
    semantic,     \* the two collections of the Similarity Index
    result        \* outcome of the latest direct call of a pure function

vars == <<state, pc, raised, consulted, invocations, episodes, semantic, result>>

-----------------------------------------------------------------------------
(* Python values *)

PyNone == [none |-> TRUE]
PyStr(s) == [str |-> s]
PyInt(n) == [int |-> n]
PyList(l) == [list |-> l]
PyDict(d) == [dict |-> d]
EmptyDict == [dict |-> <<>>]

IsNone(v) == "none" \in DOMAIN v
IsStr(v) == "str" \in DOMAIN v
IsInt(v) == "int" \in DOMAIN v
IsList(v) == "list" \in DOMAIN v
IsDict(v) == "dict" \in DOMAIN v

Ret(v) == [ret |-> v]
Raise(t) == [raise |-> t]
Raises(r) == "raise" \in DOMAIN r

\* bool(v): None, "", 0, [] and {} are false
Truthy(v) ==
    IF IsNone(v) THEN FALSE
    ELSE IF IsStr(v) THEN v.str # ""
    ELSE IF IsInt(v) THEN v.int # 0
    ELSE IF IsList(v) THEN Len(v.list) > 0
    ELSE IF IsDict(v) THEN DOMAIN v.dict # {}
    ELSE TRUE

\* d.get(k, default) on a mapping d
DictGet(d, k, default) == IF k \in DOMAIN d.dict THEN d.dict[k] ELSE default

\* entry.get(k) on a history record (a TLA+ record standing for the dict)
Get(entry, k) == IF k \in DOMAIN entry THEN entry[k] ELSE PyNone

\* the text values of the model that consist of whitespace only
Blank == {"", " ", "\n"}

\* s.strip()
Strip(s) == IF s \in Blank THEN "" ELSE s

\* seq[-n:]
LastN(seq, n) ==
    IF Len(seq) <= n THEN seq ELSE SubSeq(seq, Len(seq) - n + 1, Len(seq))

-----------------------------------------------------------------------------
(* The enumerated actions and the texts of the model *)

ValidActions ==
    {"INSPECT_TOOLS", "PLAN", "EXECUTE", "REFLECT", "SUMMARIZE", "GENERATE_PDF", "DONE"}

\* the state-indicator strings of the Policy Engine
StateIndicators == {"no_sql_to_execute", "no_data", "no_plan"}

QuestionPlain == "List the top actors"
QuestionPdf == "List the top actors and generate a PDF report"

\* "pdf" in state.question.lower()
PdfRequested(q) == q = QuestionPdf

PdfSuccessContent == "PDF generated successfully at: report.pdf"
PdfUnknownContent == "PDF generated successfully at: unknown"

\* 'PDF generated successfully' in content
HasPdfSuccessText(c) == IsStr(c) /\ c.str \in {PdfSuccessContent, PdfUnknownContent}

-----------------------------------------------------------------------------
(* The records the nodes append to state.history *)

OrchestratorAgent == PyStr("orchestrator")

CircuitBreakerRecord(stp) ==
    [agent |-> OrchestratorAgent, action |-> PyStr("circuit_breaker"),
     reason |-> PyStr("max_steps_reached"), step |-> PyInt(stp)]

LoopBreakerRecord(repeated_action, forced_action, stp) ==
    [agent |-> OrchestratorAgent, action |-> PyStr("loop_breaker"),
     repeated_action |-> repeated_action, forced_action |-> forced_action,
     step |-> PyInt(stp)]

DecisionRecord(action, stp) ==
    [agent |-> OrchestratorAgent, action |-> PyStr("decide_next_action"),
     decision |-> action, reasoning |-> PyStr("No reason provided"),
     step |-> PyInt(stp),
     context_used |-> PyDict([similar_patterns |-> PyInt(0), relevant_insights |-> PyInt(0)])]

ErrorFallbackRecord(err, fallback_action, stp) ==
    [agent |-> OrchestratorAgent, action |-> PyStr("error_fallback"),
     error |-> err, fallback_action |-> fallback_action, step |-> PyInt(stp)]

ToolInspectorRecord(content, raw) ==
    [role |-> PyStr("tool_inspector"), content |-> content, raw |-> raw]

PlannerRecord(content, raw) ==
    [role |-> PyStr("planner"), content |-> content, raw |-> raw]

ExecutorRecord(sql, raw) ==
    [role |-> PyStr("executor"), content |-> sql, raw |-> raw]

ReflectorRecord(j) == [reflector |-> j]

SummarizerRecord(j) == [summarizer |-> j]

PdfRecord(content, path, raw) ==
    [role |-> PyStr("pdf_generator"), content |-> content, pdf_path |-> path, raw |-> raw]

\* a step counter that an invocation leaves as it was
StepIncrement_Skipped(stp) == stp

\* state.step += 1
StepIncrement(stp) == stp + 1

\* a history that keeps only its newest record
history_append_Replacing(history, record) == <<record>>

\* state.history.append(record)
history_append(history, record) == Append(history, record)

-----------------------------------------------------------------------------
(* agents/orchestrator.py: the pure helpers *)

\* history[-5:] is what the loop detector reads
LoopWindow == 5

\* a collection that skips the orchestrator records without a decision
RECURSIVE CollectDecisions_SkipsMissing(_)
CollectDecisions_SkipsMissing(entries) ==
    IF entries = <<>> THEN <<>>
    ELSE LET entry == Head(entries)
             rest == CollectDecisions_SkipsMissing(Tail(entries))
         IN IF Get(entry, "agent") = OrchestratorAgent /\ "decision" \in DOMAIN entry
            THEN <<entry.decision>> \o rest
            ELSE rest

\* the decisions the loop detector collects (orchestrator.py 26-29)
RECURSIVE CollectDecisions(_)
CollectDecisions(entries) ==
    IF entries = <<>> THEN <<>>
    ELSE LET entry == Head(entries)
             rest == CollectDecisions(Tail(entries))
         IN IF Get(entry, "agent") = OrchestratorAgent
            THEN <<Get(entry, "decision")>> \o rest
            ELSE rest

RecentDecisions(history) == CollectDecisions(LastN(history, LoopWindow))

\* len(recent_decisions) >= 3 and len(set(recent_decisions[-3:])) == 1
LoopDetected(history) ==
    LET recent_decisions == RecentDecisions(history)
    IN /\ Len(recent_decisions) >= 3
       /\ Cardinality({LastN(recent_decisions, 3)[i] : i \in 1..3}) = 1

RepeatedAction(history) ==
    LET recent_decisions == RecentDecisions(history)
    IN recent_decisions[Len(recent_decisions)]

\* a forced progression that does not look at sql
_force_progression_NoSqlCheck(st, repeated_action) ==
    IF repeated_action = PyStr("INSPECT_TOOLS") /\ Truthy(st.available_tools)
    THEN PyStr("PLAN")
    ELSE IF repeated_action = PyStr("PLAN") /\ Truthy(st.plan)
    THEN PyStr("EXECUTE")
    ELSE IF repeated_action = PyStr("EXECUTE")
    THEN IF Truthy(st.rows) THEN PyStr("SUMMARIZE") ELSE PyStr("REFLECT")
    ELSE PyStr("DONE")

_force_progression(st, repeated_action) ==
    IF repeated_action = PyStr("INSPECT_TOOLS") /\ Truthy(st.available_tools)
    THEN PyStr("PLAN")
    ELSE IF repeated_action = PyStr("PLAN") /\ Truthy(st.plan)
    THEN PyStr("EXECUTE")
    ELSE IF repeated_action = PyStr("EXECUTE") /\ Truthy(st.sql)
    THEN IF Truthy(st.rows) THEN PyStr("SUMMARIZE") ELSE PyStr("REFLECT")
    ELSE IF repeated_action = PyStr("REFLECT")
    THEN PyStr("DONE")
    ELSE PyStr("DONE")

\* the position of the record the insight scan stops at (its break), 0 if none
InsightScanStop(history) ==
    LET stops == {i \in 1..Len(history) :
                    \/ "summarizer" \in DOMAIN history[i]
                    \/ Truthy(Get(history[i], "insight"))}
    IN IF stops = {} THEN 0
       ELSE CHOOSE i \in stops : \A j \in stops : i <= j

\* bool(d.get("insight", "").strip()) on a value d
InsightOf(d) ==
    IF ~IsDict(d) THEN Raise("AttributeError")
    ELSE LET insight == DictGet(d, "insight", PyStr(""))
         IN IF ~IsStr(insight) THEN Raise("AttributeError")
            ELSE Ret(Strip(insight.str) # "")

\* has_insights as _fallback_decision computes it (orchestrator.py 191-203)
FallbackHasInsights(history) ==
    LET i == InsightScanStop(history)
    IN IF i = 0 THEN Ret(FALSE)
       ELSE IF "summarizer" \in DOMAIN history[i]
       THEN LET summary_data == history[i].summarizer
            IN IF IsDict(summary_data)
               THEN InsightOf(DictGet(summary_data, "response", summary_data))
               ELSE Ret(FALSE)
       ELSE Ret(TRUE)

\* has_insights as _build_decision_context computes it (orchestrator.py 243-261)
ContextHasInsights(history) ==
    LET i == InsightScanStop(history)
    IN IF i = 0 THEN Ret(FALSE)
       ELSE IF "summarizer" \in DOMAIN history[i]
       THEN LET summary_data == history[i].summarizer
            IN IF IsDict(summary_data)
               THEN InsightOf(DictGet(summary_data, "response", summary_data))
               ELSE IF IsList(summary_data) /\ Len(summary_data.list) > 0
               THEN LET first_item == summary_data.list[1]
                    IN IF IsDict(first_item) THEN InsightOf(first_item)
                       ELSE Ret(FALSE)
               ELSE Ret(FALSE)
       ELSE Ret(TRUE)

PdfGenerated(history) ==
    \E i \in 1..Len(history) :
        /\ Get(history[i], "role") = PyStr("pdf_generator")
        /\ \/ Truthy(Get(history[i], "pdf_path"))
           \/ HasPdfSuccessText(Get(history[i], "content"))

\* state.error and state.error not in [the state indicators]
RealError(st) == Truthy(st.error) /\ st.error.str \notin StateIndicators

ToolInspectionDone(history) ==
    \E i \in 1..Len(history) : Get(history[i], "role") = PyStr("tool_inspector")

\* len([h for h in state.history if h.get('agent') == 'reflector'])
ReflectorCount(history) ==
    Cardinality({i \in 1..Len(history) : Get(history[i], "agent") = PyStr("reflector")})

_fallback_decision(st) ==
    LET has_insights == FallbackHasInsights(st.history)
        pdf_generated == PdfGenerated(st.history)
        real_error == RealError(st)
        tool_inspection_done == ToolInspectionDone(st.history)
    IN IF Raises(has_insights) THEN has_insights
       ELSE IF ~Truthy(st.available_tools) /\ ~tool_inspection_done
       THEN Ret(PyStr("INSPECT_TOOLS"))
       ELSE IF real_error /\ ReflectorCount(st.history) < 2
       THEN Ret(PyStr("REFLECT"))
       ELSE IF ~Truthy(st.plan)
       THEN Ret(PyStr("PLAN"))
       ELSE IF Truthy(st.plan) /\ Truthy(st.sql) /\ ~Truthy(st.rows)
       THEN Ret(PyStr("EXECUTE"))
       ELSE IF PdfRequested(st.question) /\ Truthy(st.rows) /\ has_insights.ret /\ pdf_generated
       THEN Ret(PyStr("DONE"))
       ELSE IF PdfRequested(st.question) /\ Truthy(st.rows) /\ has_insights.ret
       THEN Ret(PyStr("GENERATE_PDF"))
       ELSE IF Truthy(st.rows) /\ ~has_insights.ret
       THEN Ret(PyStr("SUMMARIZE"))
       ELSE Ret(PyStr("DONE"))

\* _build_decision_context: the facts it reports, or the exception it raises
_build_decision_context(st, learning_context) ==
    LET has_insights == ContextHasInsights(st.history)
    IN IF Raises(has_insights) THEN has_insights
       ELSE Ret([pdf_requested |-> PdfRequested(st.question),
                 pdf_generated |-> PdfGenerated(st.history),
                 tools_available |-> Truthy(st.available_tools),
                 tools_inspected |-> ToolInspectionDone(st.history),
                 plan_exists |-> Truthy(st.plan),
                 sql_query |-> Truthy(st.sql),
                 has_results |-> Truthy(st.rows),
                 execute_needed |-> Truthy(st.sql) /\ ~Truthy(st.rows),
                 has_insights |-> has_insights.ret,
                 has_error |-> RealError(st),
                 learning_context |-> learning_context])

-----------------------------------------------------------------------------
(* core/memory.py and core/semantic.py: the writes the stage operations make *)

\* json.dumps(v): the serialized text of v
JsonDumps(v) == [json |-> v]

\* add_episode_to_semantic_memory: one entry per non-empty text; a failure of
\* the index is swallowed and leaves it as it was
AddEpisodeToSemanticMemory(sem, episode_id, question, insight, index_ok) ==
    IF ~index_ok THEN sem
    ELSE [questions |-> IF Truthy(question)
                        THEN sem.questions \cup {[episode_id |-> episode_id, document |-> question]}
                        ELSE sem.questions,
          insights |-> IF Truthy(insight)
                       THEN sem.insights \cup {[episode_id |-> episode_id, document |-> insight]}
                       ELSE sem.insights]

\* the row log_episode inserts; AUTOINCREMENT gives it the next id
EpisodeRow(id, question, plan, sql) ==
    [id |-> id, question |-> question,
     plan_json |-> IF IsNone(plan) THEN PyNone ELSE JsonDumps(plan),
     sql |-> sql,
     rows_json |-> JsonDumps(PyList(<<>>)),
     outcome |-> PyNone, error |-> PyNone, insight |-> PyNone]

\* the columns update_episode writes for its keyword arguments
UpdateColumns(fields) ==
    [c \in {IF k = "plan" THEN "plan_json" ELSE IF k = "rows" THEN "rows_json" ELSE k :
                k \in DOMAIN fields} |->
        IF c = "plan_json" /\ "plan" \in DOMAIN fields
        THEN IF IsNone(fields.plan) THEN PyNone ELSE JsonDumps(fields.plan)
        ELSE IF c = "rows_json" /\ "rows" \in DOMAIN fields
        THEN JsonDumps(IF Truthy(fields.rows) THEN fields.rows ELSE PyList(<<>>))
        ELSE fields[c]]

\* UPDATE episodes SET ... WHERE id = ep_id
update_episode(eps, ep_id, fields) ==
    IF DOMAIN fields = {} THEN eps
    ELSE LET cols == UpdateColumns(fields)
         IN [i \in 1..Len(eps) |->
                IF PyInt(eps[i].id) = ep_id
                THEN [c \in DOMAIN eps[i] |->
                        IF c \in DOMAIN cols THEN cols[c] ELSE eps[i][c]]
                ELSE eps[i]]

\* the row log_episode inserts from all of its arguments (memory.py 81-93)
InsertedRow(id, question, plan, sql, rows, outcome, error, insight) ==
    [EpisodeRow(id, question, plan, sql) EXCEPT
        !.rows_json = JsonDumps(IF Truthy(rows) THEN rows ELSE PyList(<<>>)),
        !.outcome = outcome, !.error = error, !.insight = insight]

\* a log_episode that does not store the sql it is given
log_episode_DropsSql(eps, question, plan, sql, rows, outcome, error, insight) ==
    Append(eps, InsertedRow(Len(eps) + 1, question, plan, PyNone, rows, outcome, error,
                            insight))

\* INSERT INTO episodes: rows are never deleted, so AUTOINCREMENT numbers them
\* 1, 2, ... in the order they are logged
log_episode(eps, question, plan, sql, rows, outcome, error, insight) ==
    Append(eps, InsertedRow(Len(eps) + 1, question, plan, sql, rows, outcome, error,
                            insight))

\* json.loads(t): the value of a text json.dumps wrote, JSONDecodeError on
\* any other text
JsonLoads(t) == IF "json" \in DOMAIN t THEN Ret(t.json) ELSE Raise("JSONDecodeError")

\* dict(row) with plan and rows parsed back (memory.py 158-170, 190-202,
\* 214-225): the key is added only when the column holds a non-empty text
ParsedEpisode(row) ==
    LET plan == JsonLoads(row.plan_json)
        rows == JsonLoads(row.rows_json)
        keys == DOMAIN row \cup (IF Truthy(row.plan_json) THEN {"plan"} ELSE {})
                           \cup (IF Truthy(row.rows_json) THEN {"rows"} ELSE {})
    IN [k \in keys |->
          IF k = "plan" THEN (IF Raises(plan) THEN PyNone ELSE plan.ret)
          ELSE IF k = "rows" THEN (IF Raises(rows) THEN PyList(<<>>) ELSE rows.ret)
          ELSE row[k]]

\* SELECT * FROM episodes WHERE id = ?: the row, or None
get_episode(eps, episode_id) ==
    LET found == {i \in 1..Len(eps) : PyInt(eps[i].id) = episode_id}
    IN IF found = {} THEN PyNone
       ELSE ParsedEpisode(eps[CHOOSE i \in found : TRUE])

\* WHERE outcome = 'success' AND sql IS NOT NULL
IsRecentSuccess(row) == row.outcome = PyStr("success") /\ ~IsNone(row.sql)

\* the successes among the first i rows, highest id first, at most limit
RECURSIVE SuccessesBelow(_, _, _)
SuccessesBelow(eps, i, limit) ==
    IF i = 0 \/ limit = 0 THEN <<>>
    ELSE IF IsRecentSuccess(eps[i])
    THEN <<ParsedEpisode(eps[i])>> \o SuccessesBelow(eps, i - 1, limit - 1)
    ELSE SuccessesBelow(eps, i - 1, limit)

\* the successes among the rows from i on, lowest id first, at most limit
RECURSIVE SuccessesAbove(_, _, _)
SuccessesAbove(eps, i, limit) ==
    IF i > Len(eps) \/ limit = 0 THEN <<>>
    ELSE IF IsRecentSuccess(eps[i])
    THEN <<ParsedEpisode(eps[i])>> \o SuccessesAbove(eps, i + 1, limit - 1)
    ELSE SuccessesAbove(eps, i + 1, limit)

\* a recent_successes that orders by ascending id
recent_successes_OldestFirst(eps, limit) == SuccessesAbove(eps, 1, limit)

\* ... ORDER BY id DESC LIMIT ?
recent_successes(eps, limit) == SuccessesBelow(eps, Len(eps), limit)

\* the questions episodes are logged with, and the insight an update writes
StoreQuestion1 == PyStr("top actors")
StoreQuestion2 == PyStr("cities by revenue")
StoreInsight == PyStr("x")

\* the words the FTS index holds for a column value
Tokens(v) ==
    IF v = StoreQuestion1 THEN {"top", "actors"}
    ELSE IF v = StoreQuestion2 THEN {"cities", "by", "revenue"}
    ELSE IF v = PyStr("SELECT 1") THEN {"select", "1"}
    ELSE IF v = PyStr("SELECT 2") THEN {"select", "2"}
    ELSE IF v = StoreInsight THEN {"x"}
    ELSE {}

\* the texts search_similar is asked with
FtsQueries == {"actors", "cities revenue", "Top 5 cities by revenue?"}

\* fts MATCH ?: the words a query asks for; a query with punctuation is an
\* FTS5 syntax error (sqlite3.OperationalError)
QueryTokens(q) ==
    IF q = "actors" THEN Ret({"actors"})
    ELSE IF q = "cities revenue" THEN Ret({"cities", "revenue"})
    ELSE Raise("OperationalError")

\* the columns of the fts table (memory.py 31-35)
FtsColumns == {"question", "sql", "insight"}

RowMatches(row, words) ==
    words \subseteq UNION {Tokens(row[c]) : c \in FtsColumns}

\* every order and cut of the matching rows that ORDER BY rank LIMIT ? can
\* give: a sequence of distinct matching rows, as long as the limit allows
RankedMatches(eps, words, limit) ==
    LET matching == {i \in 1..Len(eps) : RowMatches(eps[i], words)}
        n == IF Cardinality(matching) < limit THEN Cardinality(matching) ELSE limit
    IN {[k \in 1..n |-> ParsedEpisode(eps[ids[k]])] :
            ids \in {f \in [1..n -> matching] :
                        \A a, b \in 1..n : a # b => f[a] # f[b]}}

\* a search_similar that lets the OperationalError of the query through
search_similar_Uncaught(eps, q, limit) ==
    IF Raises(QueryTokens(q)) THEN {QueryTokens(q)}
    ELSE {Ret(r) : r \in RankedMatches(eps, QueryTokens(q).ret, limit)}

\* search_similar: the results it can return; an OperationalError gives []
search_similar(eps, q, limit) ==
    IF Raises(QueryTokens(q)) THEN {Ret(<<>>)}
    ELSE {Ret(r) : r \in RankedMatches(eps, QueryTokens(q).ret, limit)}

\* the AFTER UPDATE trigger (memory.py 46-51) writes the fts table, an
\* external-content FTS5 table, with a plain UPDATE; when the update changed
\* an indexed column the index is asked to remove words it does not hold
FtsColumnChanged(eps, ep_id, fields) ==
    \E i \in 1..Len(eps) :
        /\ PyInt(eps[i].id) = ep_id
        /\ \E c \in FtsColumns \cap DOMAIN fields : fields[c] # eps[i][c]

-----------------------------------------------------------------------------
(* What the external collaborators can answer *)

Sql1 == PyStr("SELECT 1")
Sql2 == PyStr("SELECT 2")
Plan1 == PyList(<<PyStr("join actor and film_actor")>>)
Rows1 == PyList(<<PyDict([name |-> PyStr("GINA")])>>)
Tools1 == PyList(<<PyDict([name |-> PyStr("execute_sql")])>>)
InsightText == PyStr("GINA leads the ranking")

\* the planner's parsed answer: plan and sql_candidate, either may be missing
PlannerAnswers ==
    {EmptyDict,
     PyDict([plan |-> Plan1]),
     PyDict([plan |-> Plan1, sql_candidate |-> Sql1])}

\* what executor_node is left with after sync_execute_sql: rows and error
ExecutorOutcomes ==
    {[rows |-> Rows1, error |-> PyNone],
     [rows |-> PyList(<<>>), error |-> PyNone],
     [rows |-> PyList(<<>>), error |-> PyStr("Unknown MCP error")],
     [rows |-> PyList(<<>>), error |-> PyStr("JSON parsing error")]}

\* what llm_json hands the reflector: any JSON value
ReflectorAnswers ==
    {PyDict([revised_sql |-> Sql2, reason |-> PyStr("add LIMIT")]),
     EmptyDict,
     PyList(<<>>)}

\* the summarizer's payload j: always a mapping, its values any JSON value
SummarizerPayloads ==
    {PyDict([insight |-> InsightText]),
     PyDict([response |-> PyDict([insight |-> InsightText])]),
     PyDict([insight |-> PyStr("")]),
     PyDict([insight |-> PyInt(5)]),
     PyDict([insight |-> PyNone]),
     PyDict([response |-> PyStr("GINA leads")])}

-----------------------------------------------------------------------------
(* agents/orchestrator.py: orchestrator_node *)

\* a budget check that is off by one
BudgetExhausted_OffByOne(stp, max_steps) == stp > max_steps + 1

\* state.step > state.max_steps, read after the increment
BudgetExhausted(stp, max_steps) == stp > max_steps

LearningContexts ==
    {[similar_patterns |-> 0, relevant_insights |-> 0],
     [similar_patterns |-> 1, relevant_insights |-> 1]}

\* lines 12-23: the budget is exhausted
CircuitBreaker ==
    /\ pc = "orchestrator"
    /\ BudgetExhausted(StepIncrement(state.step), state.max_steps)
    /\ state' = [state EXCEPT !.step = StepIncrement(@),
                              !.next_action = PyStr("DONE"),
                              !.history = history_append(@, CircuitBreakerRecord(StepIncrement(state.step)))]
    /\ consulted' = {}
    /\ invocations' = invocations + 1
    /\ pc' = "route"
    /\ UNCHANGED <<raised, episodes, semantic, result>>

\* lines 25-42: the last three collected decisions are the same
LoopBreaker ==
    /\ pc = "orchestrator"
    /\ ~BudgetExhausted(StepIncrement(state.step), state.max_steps)
    /\ LoopDetected(state.history)
    /\ LET repeated_action == RepeatedAction(state.history)
           forced == _force_progression(state, repeated_action)
       IN state' = [state EXCEPT !.step = StepIncrement(@),
                                 !.next_action = forced,
                                 !.history = history_append(@,
                                     LoopBreakerRecord(repeated_action, forced, StepIncrement(state.step)))]
    /\ consulted' = {"loop_detector"}
    /\ invocations' = invocations + 1
    /\ pc' = "route"
    /\ UNCHANGED <<raised, episodes, semantic, result>>

\* lines 44-106: past the guards. get_llm and get_learning_context are called
\* (a failure of the latter is caught), _build_decision_context runs outside
\* any try, and the prompt's f-string reads has_insights, a name that
\* orchestrator_node never binds: building the prompt raises NameError, so
\* llm.generate (line 109) and the try block around it are never entered.
DecideNextAction ==
    /\ pc = "orchestrator"
    /\ ~BudgetExhausted(StepIncrement(state.step), state.max_steps)
    /\ ~LoopDetected(state.history)
    /\ \E learning_context \in LearningContexts :
          LET context == _build_decision_context(state, learning_context)
          IN raised' = [node |-> "orchestrator",
                        type |-> IF Raises(context) THEN context.raise ELSE "NameError"]
    /\ state' = [state EXCEPT !.step = StepIncrement(@)]
    /\ consulted' = {"loop_detector", "get_llm", "get_learning_context",
                     "_build_decision_context"}
    /\ invocations' = invocations + 1
    /\ pc' = "raised"
    /\ UNCHANGED <<episodes, semantic, result>>

orchestrator_node == CircuitBreaker \/ LoopBreaker \/ DecideNextAction

-----------------------------------------------------------------------------
(* graphs/lysai_graph.py: the routing of a decision *)

\* s.upper() on the texts next_action can hold
Upper(s) ==
    CASE s = "done" -> "DONE"
      [] s = "end" -> "END"
      [] s = "plan" -> "PLAN"
      [] s = "execute" -> "EXECUTE"
      [] OTHER -> s

action_map ==
    [a \in ValidActions \cup {"END"} |->
        CASE a = "INSPECT_TOOLS" -> "tool_inspector"
          [] a = "PLAN" -> "planner"
          [] a = "EXECUTE" -> "executor"
          [] a = "REFLECT" -> "reflector"
          [] a = "SUMMARIZE" -> "summarizer"
          [] a = "GENERATE_PDF" -> "pdf_generator"
          [] a = "DONE" -> "END"
          [] a = "END" -> "END"]

route_next_action(st) ==
    IF ~Truthy(st.next_action) THEN "END"
    ELSE LET next_action == Upper(st.next_action.str)
         IN IF next_action \in DOMAIN action_map THEN action_map[next_action] ELSE "END"

\* the conditional edge out of the orchestrator node
RouteNextAction ==
    /\ pc = "route"
    /\ pc' = route_next_action(state)
    /\ UNCHANGED <<state, raised, consulted, invocations, episodes, semantic, result>>

-----------------------------------------------------------------------------
(* The stage operations the Policy Engine's decisions reach *)

StageRaises(node, type) ==
    /\ raised' = [node |-> node, type |-> type]
    /\ pc' = "raised"

StageReturns ==
    /\ raised' = raised
    /\ pc' = "orchestrator"

\* agents/planner.py: llm.generate is called outside any try
planner_node ==
    /\ pc = "planner"
    /\ \/ /\ StageRaises("planner", "LLMError")
          /\ UNCHANGED state
       \/ \E parsed \in PlannerAnswers :
             /\ state' = [state EXCEPT
                    !.plan = DictGet(parsed, "plan", PyList(<<>>)),
                    !.sql = DictGet(parsed, "sql_candidate", PyStr("")),
                    !.history = history_append(@, PlannerRecord(PyStr("planner text"), EmptyDict))]
             /\ StageReturns
    /\ UNCHANGED <<consulted, invocations, episodes, semantic, result>>

\* an executor that logs an episode on every attempt
NeedsEpisode_Always(st) == TRUE

\* executor.py 13: an episode is logged when the run has none yet
NeedsEpisode(st) == IsNone(st.episode_id)

\* agents/executor.py
executor_node ==
    /\ pc = "executor"
    /\ \E log_ok \in BOOLEAN, index_ok \in BOOLEAN, update_ok \in BOOLEAN,
          outcome \in ExecutorOutcomes :
        LET need_log == NeedsEpisode(state)
            new_id == Len(episodes) + 1
            logged == Append(episodes,
                             EpisodeRow(new_id, PyStr(state.question), state.plan, state.sql))
            eps1 == IF need_log THEN logged ELSE episodes
            sem1 == IF need_log
                    THEN AddEpisodeToSemanticMemory(semantic, new_id, PyStr(state.question),
                                                    PyNone, index_ok)
                    ELSE semantic
            ep_id == IF need_log THEN PyInt(new_id) ELSE state.episode_id
            ran == [state EXCEPT !.episode_id = ep_id,
                                 !.rows = outcome.rows,
                                 !.error = outcome.error]
            update_fields ==
                [sql |-> ran.sql, rows |-> ran.rows, error |-> ran.error,
                 outcome |-> IF ~Truthy(ran.error) /\ Truthy(ran.rows)
                             THEN PyStr("success") ELSE PyStr("error")]
        IN IF need_log /\ ~log_ok
           THEN \* log_episode raises, outside any try
                /\ StageRaises("executor", "StoreError")
                /\ UNCHANGED <<state, episodes, semantic>>
           ELSE IF ~Truthy(state.sql)
           THEN /\ state' = [state EXCEPT !.episode_id = ep_id,
                                          !.error = PyStr("no_sql_to_execute")]
                /\ episodes' = eps1
                /\ semantic' = sem1
                /\ StageReturns
           ELSE IF Truthy(ep_id) /\ ~update_ok
           THEN \* update_episode raises, outside any try
                /\ state' = ran
                /\ episodes' = eps1
                /\ semantic' = sem1
                /\ StageRaises("executor", "StoreError")
           ELSE /\ state' = [ran EXCEPT
                       !.history = history_append(@, ExecutorRecord(ran.sql, EmptyDict))]
                /\ episodes' = IF Truthy(ep_id)
                               THEN update_episode(eps1, ep_id, update_fields)
                               ELSE eps1
                /\ semantic' = sem1
                /\ StageReturns
    /\ UNCHANGED <<consulted, invocations, result>>

\* agents/reflector.py: llm_json's call of the backend is outside any try, and
\* its answer need not be a mapping
reflector_node ==
    /\ pc = "reflector"
    /\ \/ /\ StageRaises("reflector", "LLMError")
          /\ UNCHANGED state
       \/ \E j \in ReflectorAnswers :
             IF ~IsDict(j)
             THEN /\ StageRaises("reflector", "AttributeError")
                  /\ UNCHANGED state
             ELSE /\ state' =
                       IF Truthy(DictGet(j, "revised_sql", PyNone))
                       THEN [state EXCEPT !.sql = j.dict.revised_sql,
                                          !.history = history_append(@, ReflectorRecord(j))]
                       ELSE [state EXCEPT !.history = history_append(@,
                                ReflectorRecord(PyDict([note |-> PyStr("No revision made")])))]
                  /\ StageReturns
    /\ UNCHANGED <<consulted, invocations, episodes, semantic, result>>

\* agents/summarizer.py: llm.generate is called outside any try; the store
\* update is inside one. update_episode's own call of the index passes a
\* keyword the index does not take, which update_episode catches.
summarizer_node ==
    /\ pc = "summarizer"
    /\ \/ /\ StageRaises("summarizer", "LLMError")
          /\ UNCHANGED <<state, episodes>>
       \/ \E j \in SummarizerPayloads, update_ok \in BOOLEAN :
             /\ episodes' =
                   IF Truthy(state.episode_id) /\ Truthy(DictGet(j, "insight", PyNone))
                      /\ update_ok
                   THEN update_episode(episodes, state.episode_id, [insight |-> j.dict.insight])
                   ELSE episodes
             /\ state' = [state EXCEPT !.history = history_append(@, SummarizerRecord(j))]
             /\ StageReturns
    /\ UNCHANGED <<consulted, invocations, semantic, result>>

\* what get_tools hands tool_inspector_node: the tools, or a failure
ToolInspectorOutcomes ==
    {[tools |-> Tools1, ok |-> TRUE],
     [tools |-> PyList(<<>>), ok |-> TRUE],
     [tools |-> PyList(<<>>), ok |-> FALSE]}

\* agents/tool_inspector.py: the whole body is inside one try
tool_inspector_node ==
    /\ pc = "tool_inspector"
    /\ \E outcome \in ToolInspectorOutcomes :
          state' =
             IF outcome.ok
             THEN [state EXCEPT
                     !.available_tools = outcome.tools,
                     !.history = history_append(@, ToolInspectorRecord(PyStr("Available tools:"),
                                                                EmptyDict)),
                     !.error = PyNone]
             ELSE [state EXCEPT
                     !.available_tools = PyList(<<>>),
                     !.error = PyStr("Tool inspection error"),
                     !.history = history_append(@,
                         ToolInspectorRecord(PyStr("Failed to get available tools"),
                                             EmptyDict))]
    /\ StageReturns
    /\ UNCHANGED <<consulted, invocations, episodes, semantic, result>>

\* the insight pdf_generator_node takes from the first summarizer record of
\* history (pdf_generator.py 25-41), or the exception the lookup raises
PdfInsight(history) ==
    LET found == {i \in 1..Len(history) : "summarizer" \in DOMAIN history[i]}
    IN IF found = {} THEN Ret(PyStr(""))
       ELSE LET i == CHOOSE k \in found : \A j \in found : k <= j
                summary_data == history[i].summarizer
                InsightIn(d) ==
                    LET response_data == DictGet(d, "response", d)
                    IN IF IsDict(response_data)
                       THEN Ret(DictGet(response_data, "insight", PyStr("")))
                       ELSE Raise("AttributeError")
            IN IF IsList(summary_data) /\ Len(summary_data.list) > 0
               THEN IF IsDict(summary_data.list[1])
                    THEN InsightIn(summary_data.list[1])
                    ELSE Ret(PyStr(""))
               ELSE IF IsDict(summary_data) THEN InsightIn(summary_data)
               ELSE Ret(PyStr(""))

\* what execute_tool("generate_pdf") leaves pdf_generator_node with: a render
\* record (with or without a path) and no error, or an error and no record
PdfToolOutcomes ==
    {[record |-> <<PdfRecord(PyStr(PdfSuccessContent), PyStr("report.pdf"), EmptyDict)>>,
      error |-> PyNone],
     [record |-> <<PdfRecord(PyStr(PdfUnknownContent), PyNone, EmptyDict)>>,
      error |-> PyNone],
     [record |-> <<>>, error |-> PyStr("pdf_generation_parse_error")],
     [record |-> <<>>, error |-> PyStr("pdf_generation_empty_response")],
     [record |-> <<>>, error |-> PyStr("pdf_generation_failed: unknown_error")],
     [record |-> <<>>, error |-> PyStr("pdf_generation_exception")]}

\* agents/pdf_generator.py: the insight lookup and llm.generate are outside
\* any try, the tool call is inside one
pdf_generator_node ==
    /\ pc = "pdf_generator"
    /\ LET insight == PdfInsight(state.history)
       IN IF Raises(insight)
          THEN /\ StageRaises("pdf_generator", insight.raise)
               /\ UNCHANGED state
          ELSE IF ~Truthy(insight.ret)
          THEN /\ state' = [state EXCEPT !.error = PyStr("no_insight_available")]
               /\ StageReturns
          ELSE \/ /\ StageRaises("pdf_generator", "LLMError")
                  /\ UNCHANGED state
               \/ \E outcome \in PdfToolOutcomes :
                     /\ state' = [state EXCEPT !.history = IF outcome.record = <<>> THEN @
                                                            ELSE history_append(@, outcome.record[1]),
                                               !.error = outcome.error]
                     /\ StageReturns
    /\ UNCHANGED <<consulted, invocations, episodes, semantic, result>>

-----------------------------------------------------------------------------
(* core/state.py: the Run State, and the states a run is started from *)

AgentState(question, plan, sql, rows, error, available_tools, history, stp, max_steps) ==
    [question |-> question, plan |-> plan, sql |-> sql, rows |-> rows,
     error |-> error, available_tools |-> available_tools, history |-> history,
     episode_id |-> PyNone, step |-> stp, max_steps |-> max_steps,
     next_action |-> PyNone]

\* the budget of the runs of the model
MaxSteps == 2
\* the longest history a run of the model is started with
MaxHist == 6
\* the longest history _fallback_decision is called with
MaxFnHist == 2

Seqs(A, n) == UNION {[1..k -> A] : k \in 0..n}

\* sequences of at most n records that hold at most two different records
Histories(A, n) == UNION {Seqs(B, n) : B \in {C \in SUBSET A : Cardinality(C) <= 2}}

\* a run is started from any AgentState (tests build them mid-run): decisions
\* of earlier invocations and the planner's records may be in its history
RunRecords ==
    {DecisionRecord(PyStr("INSPECT_TOOLS"), 1),
     DecisionRecord(PyStr("PLAN"), 1),
     DecisionRecord(PyStr("EXECUTE"), 1),
     PlannerRecord(PyStr("planner text"), EmptyDict)}

RunStates ==
    {AgentState(QuestionPdf, plan, sql, rows, error, tools, history, stp, MaxSteps) :
        plan \in {PyList(<<>>), Plan1}, sql \in {PyNone, Sql1}, rows \in {PyNone, Rows1},
        error \in {PyNone, PyStr("Unknown MCP error")}, tools \in {PyNone, Tools1},
        history \in Histories(RunRecords, MaxHist), stp \in 0..MaxSteps}

NoCalls ==
    /\ raised = PyNone
    /\ consulted = {}
    /\ invocations = 0
    /\ episodes = <<>>
    /\ semantic = [questions |-> {}, insights |-> {}]
    /\ result = PyNone

Init ==
    /\ state \in RunStates
    /\ pc = "orchestrator"
    /\ NoCalls

Next ==
    \/ orchestrator_node
    \/ RouteNextAction
    \/ planner_node
    \/ executor_node
    \/ reflector_node
    \/ summarizer_node

Spec == Init /\ [][Next]_vars

-----------------------------------------------------------------------------
(* graphs/lysai_graph.py: each node of the graph, entered on any Run State *)

GraphNodes ==
    {"orchestrator", "tool_inspector", "planner", "executor", "reflector",
     "summarizer", "pdf_generator"}

\* the records the states of StageSpec hold in their history
StageRecords ==
    {SummarizerRecord(j) : j \in SummarizerPayloads} \cup
    {DecisionRecord(PyStr("PLAN"), 1),
     ExecutorRecord(Sql1, EmptyDict)}

\* short histories of those records, and the histories the loop detector
\* acts on
StageHistories ==
    Histories(StageRecords, MaxFnHist) \cup
    {[i \in 1..3 |-> DecisionRecord(PyStr(a), 1)] : a \in {"PLAN", "EXECUTE"}}

StageStates ==
    {AgentState(QuestionPdf, plan, sql, rows, error, tools, history, stp, MaxSteps) :
        plan \in {PyList(<<>>), Plan1}, sql \in {PyNone, Sql1}, rows \in {PyNone, Rows1},
        error \in {PyNone, PyStr("no_sql_to_execute"), PyStr("Unknown MCP error")},
        tools \in {PyNone, Tools1},
        history \in StageHistories, stp \in 0..MaxSteps}

StageInit ==
    /\ state \in StageStates
    /\ pc \in GraphNodes
    /\ NoCalls

StageNext ==
    \/ orchestrator_node
    \/ RouteNextAction
    \/ tool_inspector_node
    \/ planner_node
    \/ executor_node
    \/ reflector_node
    \/ summarizer_node
    \/ pdf_generator_node

StageSpec == StageInit /\ [][StageNext]_vars

-----------------------------------------------------------------------------
(* Direct calls of the pure functions of agents/orchestrator.py *)

\* every shape of record a stage appends that _fallback_decision looks at
FnRecords ==
    {SummarizerRecord(j) : j \in SummarizerPayloads} \cup
    {ReflectorRecord(EmptyDict),
     ToolInspectorRecord(PyStr("Available tools:"), EmptyDict),
     PdfRecord(PyStr(PdfSuccessContent), PyStr("report.pdf"), EmptyDict),
     DecisionRecord(PyStr("PLAN"), 1)}

\* f"Orchestrator failed: {e}" (orchestrator.py 166) for a timed-out oracle
OrchestratorFailed == PyStr("Orchestrator failed: timed out")

FnErrors ==
    {PyNone, PyStr("no_sql_to_execute"), PyStr("Unknown MCP error"), OrchestratorFailed}

FnStates ==
    {AgentState(question, plan, sql, rows, error, tools, history, 1, MaxSteps) :
        question \in {QuestionPlain, QuestionPdf},
        plan \in {PyList(<<>>), Plan1}, sql \in {PyNone, PyStr(""), Sql1},
        rows \in {PyNone, PyList(<<>>), Rows1},
        error \in FnErrors, tools \in {PyNone, Tools1},
        history \in Histories(FnRecords, MaxFnHist)}

Call_fallback_decision ==
    /\ pc = "call"
    /\ result' = [fn |-> "_fallback_decision", arg |-> PyNone,
                  out |-> _fallback_decision(state)]
    /\ pc' = "returned"
    /\ UNCHANGED <<state, raised, consulted, invocations, episodes, semantic>>

FallbackInit ==
    /\ state \in FnStates
    /\ pc = "call"
    /\ NoCalls

FallbackNext == Call_fallback_decision

FallbackSpec == FallbackInit /\ [][FallbackNext]_vars

\* the values the loop detector can hand to _force_progression
RepeatedActions == {PyStr(a) : a \in ValidActions} \cup {PyNone}

ForceStates ==
    {AgentState(QuestionPlain, plan, sql, rows, PyNone, tools, <<>>, 1, MaxSteps) :
        plan \in {PyNone, PyList(<<>>), Plan1}, sql \in {PyNone, PyStr(""), Sql1},
        rows \in {PyNone, PyList(<<>>), Rows1},
        tools \in {PyNone, PyList(<<>>), Tools1}}

Call_force_progression ==
    /\ pc = "call"
    /\ \E repeated_action \in RepeatedActions :
          result' = [fn |-> "_force_progression", arg |-> repeated_action,
                     out |-> Ret(_force_progression(state, repeated_action))]
    /\ pc' = "returned"
    /\ UNCHANGED <<state, raised, consulted, invocations, episodes, semantic>>

ForceInit ==
    /\ state \in ForceStates
    /\ pc = "call"
    /\ NoCalls

ForceNext == Call_force_progression

ForceSpec == ForceInit /\ [][ForceNext]_vars

-----------------------------------------------------------------------------
(* core/memory.py: the Episodic Store called directly, as test_memory.py does *)

\* the most episodes the store of the model holds, and the largest limit a
\* read of it is called with
MaxEpisodes == 2

\* the arguments log_episode is called with: question, plan, sql, outcome
LogArguments ==
    {[question |-> StoreQuestion1, plan |-> PyNone, sql |-> PyNone, outcome |-> PyNone],
     [question |-> StoreQuestion2, plan |-> PyList(<<>>), sql |-> Sql1, outcome |-> PyNone],
     [question |-> StoreQuestion1, plan |-> Plan1, sql |-> Sql1,
      outcome |-> PyStr("success")]}

\* the keyword arguments update_episode is called with
UpdateFields ==
    {<<>>,
     [insight |-> StoreInsight],
     [outcome |-> PyStr("error")],
     [rows |-> Rows1, outcome |-> PyStr("success")]}

\* a write returns to the caller, who goes on with the next call
StoreReturns(fn, arg, out) ==
    /\ result' = [fn |-> fn, arg |-> arg, out |-> out]
    /\ UNCHANGED <<state, pc, raised, consulted, invocations>>

\* a read leaves the store as it is: a call sequence is followed up to its
\* first read
ReadReturns(fn, arg, out) ==
    /\ result' = [fn |-> fn, arg |-> arg, out |-> out]
    /\ pc' = "read"
    /\ UNCHANGED <<state, raised, consulted, invocations, episodes, semantic>>

LogEpisode ==
    /\ pc = "store"
    /\ Len(episodes) < MaxEpisodes
    /\ \E a \in LogArguments :
          /\ episodes' = log_episode(episodes, a.question, a.plan, a.sql, PyNone,
                                     a.outcome, PyNone, PyNone)
          /\ semantic' = AddEpisodeToSemanticMemory(semantic, Len(episodes) + 1,
                                                    a.question, PyNone, TRUE)
          /\ StoreReturns("log_episode", a, Ret(PyInt(Len(episodes) + 1)))

\* the UPDATE and its trigger run in one transaction: when the trigger's write
\* of the index fails (sqlite3.DatabaseError), the row is left as it was. The
\* index call that follows a stored insight passes a keyword the index does
\* not take; the TypeError is caught and the index is left as it was.
UpdateEpisode ==
    /\ pc = "store"
    /\ \E ep_id \in 1..(MaxEpisodes + 1), fields \in UpdateFields :
          \/ /\ episodes' = update_episode(episodes, PyInt(ep_id), fields)
             /\ StoreReturns("update_episode", [ep_id |-> ep_id, fields |-> fields],
                             Ret(PyNone))
          \/ /\ FtsColumnChanged(episodes, PyInt(ep_id), fields)
             /\ episodes' = episodes
             /\ StoreReturns("update_episode", [ep_id |-> ep_id, fields |-> fields],
                             Raise("DatabaseError"))
    /\ UNCHANGED semantic

GetEpisode ==
    /\ pc = "store"
    /\ \E episode_id \in 1..(MaxEpisodes + 1) :
          ReadReturns("get_episode", PyInt(episode_id),
                       Ret(get_episode(episodes, PyInt(episode_id))))

RecentSuccesses ==
    /\ pc = "store"
    /\ \E limit \in 0..MaxEpisodes :
          ReadReturns("recent_successes", limit, Ret(recent_successes(episodes, limit)))

SearchSimilar ==
    /\ pc = "store"
    /\ \E q \in FtsQueries, limit \in 0..MaxEpisodes :
          \E out \in search_similar(episodes, q, limit) :
             ReadReturns("search_similar", [q |-> q, limit |-> limit], out)

MemoryInit ==
    /\ state = PyNone
    /\ pc = "store"
    /\ NoCalls

MemoryNext ==
    \/ LogEpisode
    \/ UpdateEpisode
    \/ GetEpisode
    \/ RecentSuccesses
    \/ SearchSimilar

MemorySpec == MemoryInit /\ [][MemoryNext]_vars

-----------------------------------------------------------------------------
(* core/memory.py: reads of rows whose serialized columns are not JSON *)

\* texts that json.loads rejects
MalformedTexts == {PyStr("{bad"), PyStr("")}

\* update_episode called with the name of a serialized column writes the
\* text as it is given (memory.py 114-120)
RawColumnWrites ==
    {[plan_json |-> PyStr("{bad")],
     [rows_json |-> PyStr("{bad")],
     [rows_json |-> PyStr("")]}

WriteRawColumn ==
    /\ pc = "store"
    /\ \E ep_id \in 1..MaxEpisodes, fields \in RawColumnWrites :
          /\ episodes' = update_episode(episodes, PyInt(ep_id), fields)
          /\ StoreReturns("update_episode", [ep_id |-> ep_id, fields |-> fields],
                          Ret(PyNone))
    /\ UNCHANGED semantic

MalformedNext ==
    \/ LogEpisode
    \/ WriteRawColumn
    \/ GetEpisode
    \/ RecentSuccesses
    \/ SearchSimilar

MalformedSpec == MemoryInit /\ [][MalformedNext]_vars

-----------------------------------------------------------------------------
(* core/memory.py: several runs writing the store at the same time. Every
   call opens a connection of its own (_conn); the statement opens a
   transaction that commit() ends. Here pc, state and result hold one entry
   per run: the run's position, its Run State's episode_id, its connection. *)

\* the runs that share the store
MaxRuns == 2

Runs == 1..MaxRuns

RunQuestion(r) == IF r % 2 = 1 THEN StoreQuestion1 ELSE StoreQuestion2

\* what executor_node (executor.py 72-78) and summarizer_node write
RunExecutorUpdates ==
    {[sql |-> Sql1, rows |-> Rows1, error |-> PyNone, outcome |-> PyStr("success")],
     [sql |-> Sql1, rows |-> PyList(<<>>), error |-> PyStr("Unknown MCP error"),
      outcome |-> PyStr("error")]}

RunSummarizerUpdate == [insight |-> StoreInsight]

\* a connection without an open transaction
ClosedConnection == [tx |-> PyNone, lastrowid |-> 0]

\* a database that lets every writer in
WriteLockFree_Unlocked(conns) == TRUE

\* SQLite lets one connection at a time write the database file: a write
\* statement starts only while no other connection has an open transaction
WriteLockFree(conns) == \A q \in DOMAIN conns : IsNone(conns[q].tx)

\* a statement of run r has started and not yet committed
Begins(r, to, table, rowid) ==
    /\ WriteLockFree(result)
    /\ result' = [result EXCEPT ![r] = [tx |-> [table |-> table], lastrowid |-> rowid]]
    /\ pc' = [pc EXCEPT ![r] = to]
    /\ UNCHANGED <<state, raised, consulted, invocations, episodes, semantic>>

\* commit(): the transaction's writes become the database
Commits(r, from, to) ==
    /\ pc[r] = from
    /\ episodes' = result[r].tx.table
    /\ result' = [result EXCEPT ![r] = [@ EXCEPT !.tx = PyNone]]
    /\ pc' = [pc EXCEPT ![r] = to]
    /\ UNCHANGED <<raised, consulted, invocations>>

\* log_episode, memory.py 79-93: the INSERT
InsertEpisode ==
    \E r \in Runs :
        /\ pc[r] = "executor"
        /\ Begins(r, "inserted",
               log_episode(episodes, RunQuestion(r), Plan1, Sql1, PyNone, PyNone, PyNone,
                           PyNone),
               Len(episodes) + 1)

\* log_episode, memory.py 95-106: commit, lastrowid, the index, return
CommitInsert ==
    \E r \in Runs :
        /\ Commits(r, "inserted", "logged")
        /\ state' = [state EXCEPT ![r] = [episode_id |-> PyInt(result[r].lastrowid)]]
        /\ semantic' = AddEpisodeToSemanticMemory(semantic, result[r].lastrowid,
                                                  RunQuestion(r), PyNone, TRUE)

\* update_episode, memory.py 124-125: the UPDATE of executor_node
ExecutorUpdate ==
    \E r \in Runs, fields \in RunExecutorUpdates :
        /\ pc[r] = "logged"
        /\ Begins(r, "executing",
                  update_episode(episodes, state[r].episode_id, fields), result[r].lastrowid)

\* update_episode, memory.py 126: commit
CommitExecutorUpdate ==
    \E r \in Runs :
        /\ Commits(r, "executing", "summarizer")
        /\ UNCHANGED <<state, semantic>>

\* update_episode, memory.py 124-125: the UPDATE of summarizer_node; when the
\* trigger's write of the index fails the statement raises and nothing of it
\* is written
SummarizerUpdate ==
    \E r \in Runs :
        /\ pc[r] = "summarizer"
        /\ \/ Begins(r, "summarizing",
                     update_episode(episodes, state[r].episode_id, RunSummarizerUpdate),
                     result[r].lastrowid)
           \/ /\ WriteLockFree(result)
              /\ FtsColumnChanged(episodes, state[r].episode_id, RunSummarizerUpdate)
              /\ pc' = [pc EXCEPT ![r] = "raised"]
              /\ UNCHANGED <<state, raised, consulted, invocations, episodes, semantic,
                             result>>

CommitSummarizerUpdate ==
    \E r \in Runs :
        /\ Commits(r, "summarizing", "done")
        /\ UNCHANGED <<state, semantic>>

\* sqlite3.connect waits 5 seconds for another connection's transaction to
\* end; then the statement raises OperationalError (database is locked) and
\* writes nothing
DatabaseLocked ==
    \E r \in Runs :
        /\ pc[r] \in {"executor", "logged", "summarizer"}
        /\ ~WriteLockFree(result)
        /\ pc' = [pc EXCEPT ![r] = "raised"]
        /\ UNCHANGED <<state, raised, consulted, invocations, episodes, semantic, result>>

ConcurrentInit ==
    /\ pc = [r \in Runs |-> "executor"]
    /\ state = [r \in Runs |-> [episode_id |-> PyNone]]
    /\ result = [r \in Runs |-> ClosedConnection]
    /\ raised = PyNone
    /\ consulted = {}
    /\ invocations = 0
    /\ episodes = <<>>
    /\ semantic = [questions |-> {}, insights |-> {}]

ConcurrentNext ==
    \/ InsertEpisode
    \/ CommitInsert
    \/ ExecutorUpdate
    \/ CommitExecutorUpdate
    \/ SummarizerUpdate
    \/ CommitSummarizerUpdate
    \/ DatabaseLocked

ConcurrentSpec == ConcurrentInit /\ [][ConcurrentNext]_vars

-----------------------------------------------------------------------------
(* core/llm_client.py: the retry loop of GeminiLLM.generate and
   OllamaLLM.generate. state holds the call's backend, max_retries, the loop
   variable attempt, the number of requests made and the sleeps taken. *)

\* the largest max_retries generate is called with (the default is 3)
MaxRetries == 3

\* time.sleep(0.8 * (2 ** attempt)), in tenths of a second
BackoffDelay(attempt) == 8 * (2 ^ attempt)

\* what generate_content gives: a response with its text attribute, or an
\* exception
GeminiAnswers ==
    {Ret([text |-> PyNone]), Ret([text |-> PyStr("")]), Ret([text |-> PyStr("PLAN")]),
     Raise("ServerError")}

\* what requests.post and response.json() give: the decoded body, or an
\* exception of the request or of raise_for_status
OllamaAnswers ==
    {Ret(PyDict([message |-> PyDict([content |-> PyStr("PLAN")])])),
     Ret(EmptyDict),
     Ret(PyDict([message |-> PyNone])),
     Raise("HTTPError")}

\* llm_client.py 80-81
GeminiResponse(resp) ==
    Ret([text |-> IF Truthy(resp.text) THEN resp.text ELSE PyStr(""), raw |-> resp])

\* llm_client.py 178-181: .get on a message that is no mapping raises
OllamaResponse(res) ==
    LET message == DictGet(res, "message", EmptyDict)
    IN IF ~IsDict(message) THEN Raise("AttributeError")
       ELSE Ret([text |-> DictGet(message, "content", PyStr("")), raw |-> res])

\* one pass of the try block: the backend's answer turned into the response
AttemptOutcomes(backend) ==
    IF backend = "GeminiLLM"
    THEN {IF Raises(a) THEN a ELSE GeminiResponse(a.ret) : a \in GeminiAnswers}
    ELSE {IF Raises(a) THEN a ELSE OllamaResponse(a.ret) : a \in OllamaAnswers}

GenerateCall(backend, json_mode, max_retries) ==
    [backend |-> backend, json_mode |-> json_mode, max_retries |-> max_retries,
     attempt |-> 0, requests |-> 0, sleeps |-> <<>>]

\* for attempt in range(max_retries): the next pass, or the end of the loop
\* and of the function, which then returns None
RetryLoop ==
    /\ pc = "generate"
    /\ IF state.attempt < state.max_retries
       THEN /\ pc' = "try"
            /\ UNCHANGED result
       ELSE /\ pc' = "returned"
            /\ result' = Ret(PyNone)
    /\ UNCHANGED <<state, raised, consulted, invocations, episodes, semantic>>

\* the try block and its except clause (llm_client.py 63-84, 170-185)
RetryAttempt ==
    /\ pc = "try"
    /\ \E out \in AttemptOutcomes(state.backend) :
          /\ state' = [state EXCEPT !.requests = @ + 1]
          /\ IF ~Raises(out)
             THEN /\ pc' = "returned"
                  /\ result' = out
             ELSE IF state.attempt = state.max_retries - 1
             THEN /\ pc' = "raised"
                  /\ result' = out
             ELSE /\ pc' = "sleep"
                  /\ UNCHANGED result
    /\ UNCHANGED <<raised, consulted, invocations, episodes, semantic>>

\* llm_client.py 85, 186
RetrySleep ==
    /\ pc = "sleep"
    /\ state' = [state EXCEPT !.sleeps = Append(@, BackoffDelay(state.attempt)),
                              !.attempt = @ + 1]
    /\ pc' = "generate"
    /\ UNCHANGED <<raised, consulted, invocations, episodes, semantic, result>>

RetryInit ==
    /\ state \in {GenerateCall(backend, json_mode, max_retries) :
                     backend \in {"GeminiLLM", "OllamaLLM"}, json_mode \in BOOLEAN,
                     max_retries \in 0..MaxRetries}
    /\ pc = "generate"
    /\ NoCalls

RetryNext ==
    \/ RetryLoop
    \/ RetryAttempt
    \/ RetrySleep

RetrySpec == RetryInit /\ [][RetryNext]_vars

-----------------------------------------------------------------------------
(* core/llm_client.py: FallbackLLM. A prompt of the model is the set of the
   phrases _simple_fallback_response looks for that its lower-cased text
   contains; a text is the sequence of its lines, or a JSON text. *)

Text(lines) == [lines |-> lines]
IsText(t) == "lines" \in DOMAIN t

\* "what action should be taken next" in prompt_lower
OrchestratorMarker == "what action should be taken next"

\* the prompt orchestrator_node builds (orchestrator.py 63-106), lower-cased:
\* it asks "what should the next action be?" and prints Present/Missing and
\* Yes/No after its labels
PolicyPrompt(has_tools, has_plan) ==
    [kind |-> "orchestration",
     contains |-> {"plan", "sql"}
                  \cup (IF has_tools THEN {} ELSE {"tools available: missing"})
                  \cup (IF has_plan THEN {"plan exists: yes"} ELSE {"plan exists: no"})
                  \cup {"has insights: no"}]

\* prompts worded the way _simple_fallback_response expects
MarkedPrompts ==
    {[kind |-> "orchestration", contains |-> {OrchestratorMarker} \cup c] :
        c \in {{"tools available: no"},
               {"plan exists: no", "plan"},
               {"sql query: no", "plan exists: yes", "plan", "sql"},
               {"has results: yes", "has insights: no"},
               {"pdf requested: yes", "has insights: yes"},
               {}}}

\* what the stages send: the question (planner.py 48), a prompt about rows
StagePrompts ==
    {[kind |-> "stage", contains |-> {}],
     [kind |-> "stage", contains |-> {"plan", "sql"}]}

ModelPrompts ==
    {PolicyPrompt(t, p) : t \in BOOLEAN, p \in BOOLEAN} \cup MarkedPrompts \cup StagePrompts

ApologyText ==
    Text(<<"I apologize, but I'm currently unable to process this request due to API limitations. Please try again later.">>)

PlannerFallbackJson ==
    JsonDumps(PyDict([plan |-> PyList(<<PyStr("Analyze the question"),
                                        PyStr("Generate appropriate SQL query"),
                                        PyStr("Execute and return results")>>),
                      sql_candidate |-> PyStr("SELECT * FROM actor LIMIT 10;"),
                      rationale |-> PyStr("Simple fallback query due to API limitations")]))

\* f'{{"response": "{response}"}}': the text is pasted between quotes as it
\* is, so a text of several lines gives a text that is no JSON
WrapInJson(t) ==
    IF Len(t.lines) = 1
    THEN JsonDumps(PyDict([response |-> PyStr(t.lines[1])]))
    ELSE PyStr("{\"response\": \"...\n...\"}")

\* llm_client.py 334-367
_simple_fallback_response(prompt, system_instruction, json_mode) ==
    LET has(phrase) == phrase \in prompt.contains
        response ==
            IF has(OrchestratorMarker)
            THEN IF has("tools available: no") \/ has("tools available: missing")
                 THEN Text(<<"INSPECT_TOOLS", "Need to examine available tools first.">>)
                 ELSE IF has("plan exists: no")
                 THEN Text(<<"PLAN", "Need to create a plan to answer the question.">>)
                 ELSE IF has("sql query: no") /\ has("plan exists: yes")
                 THEN Text(<<"EXECUTE", "Need to execute the SQL query to get data.">>)
                 ELSE IF has("has results: yes") /\ has("has insights: no")
                 THEN Text(<<"SUMMARIZE", "Need to generate insights from the results.">>)
                 ELSE IF has("pdf requested: yes") /\ has("has insights: yes")
                 THEN Text(<<"GENERATE_PDF", "Need to create the requested PDF report.">>)
                 ELSE Text(<<"DONE", "Task appears to be complete.">>)
            ELSE IF json_mode /\ (has("plan") \/ has("sql"))
            THEN PlannerFallbackJson
            ELSE ApologyText
    IN [text |-> IF json_mode /\ IsText(response) THEN WrapInJson(response) ELSE response,
        raw |-> [fallback |-> TRUE]]

\* the messages of the exceptions the backends of the model raise
ErrorTexts ==
    {"429 Too Many Requests", "Quota exceeded", "Rate limit reached",
     "Failed to generate content", "Connection refused"}

\* "429" in str(e) or "rate" in str(e).lower() or "quota" in str(e).lower()
LooksRateLimited(msg) ==
    msg \in {"429 Too Many Requests", "Quota exceeded", "Rate limit reached",
             "Failed to generate content"}

\* what a backend's generate does
BackendOutcomes(llm) ==
    {Ret([text |-> Text(<<"PLAN">>), raw |-> [llm |-> llm]])} \cup
    {Raise([llm |-> llm, msg |-> msg]) : msg \in ErrorTexts}

\* a wrapper that propagates the secondary's failure
BothFailed_RaisesSecond(e, fallback_error, params) ==
    IF LooksRateLimited(e.raise.msg) /\ LooksRateLimited(fallback_error.raise.msg)
    THEN Ret(_simple_fallback_response(params.prompt, params.system_instruction,
                                       params.json_mode))
    ELSE fallback_error

\* llm_client.py 322-331
BothFailed(e, fallback_error, params) ==
    IF LooksRateLimited(e.raise.msg) /\ LooksRateLimited(fallback_error.raise.msg)
    THEN Ret(_simple_fallback_response(params.prompt, params.system_instruction,
                                       params.json_mode))
    ELSE e

FailoverCall(params) ==
    [params |-> params, primary_calls |-> <<>>, fallback_calls |-> <<>>,
     e |-> PyNone, fallback_error |-> PyNone]

FailoverEnds(out) ==
    /\ result' = out
    /\ pc' = IF Raises(out) THEN "raised" ELSE "returned"

\* llm_client.py 297-311
CallPrimary ==
    /\ pc = "primary"
    /\ \E out \in BackendOutcomes("primary") :
          IF Raises(out)
          THEN /\ state' = [state EXCEPT !.primary_calls = Append(@, state.params),
                                         !.e = out]
               /\ pc' = "fallback"
               /\ UNCHANGED result
          ELSE /\ state' = [state EXCEPT !.primary_calls = Append(@, state.params)]
               /\ FailoverEnds(out)
    /\ UNCHANGED <<raised, consulted, invocations, episodes, semantic>>

\* llm_client.py 313-331
CallFallback ==
    /\ pc = "fallback"
    /\ \E out \in BackendOutcomes("fallback") :
          IF Raises(out)
          THEN /\ state' = [state EXCEPT !.fallback_calls = Append(@, state.params),
                                         !.fallback_error = out]
               /\ FailoverEnds(BothFailed(state.e, out, state.params))
          ELSE /\ state' = [state EXCEPT !.fallback_calls = Append(@, state.params)]
               /\ FailoverEnds(out)
    /\ UNCHANGED <<raised, consulted, invocations, episodes, semantic>>

FailoverInit ==
    /\ state \in {FailoverCall([prompt |-> prompt, system_instruction |-> PyNone,
                                json_mode |-> json_mode, max_retries |-> max_retries]) :
                     prompt \in ModelPrompts, json_mode \in BOOLEAN,
                     max_retries \in 1..MaxRetries}
    /\ pc = "primary"
    /\ NoCalls

FailoverNext ==
    \/ CallPrimary
    \/ CallFallback

FailoverSpec == FailoverInit /\ [][FailoverNext]_vars

-----------------------------------------------------------------------------
(* core/semantic.py: the learning context. A collection answers a query with
   its entries nearest first; state.indexed lists the episodes in that order
   by what the store holds of them, distances are in tenths. *)

\* the most episodes the two collections of the model hold
MaxIndexed == 7

\* what the store holds of an indexed episode: a success with sql and an
\* insight, an error without insight, a success without sql, or no row
EpisodeKinds == {"success", "error", "nosql", "gone"}

RowOfKind(id, kind) ==
    InsertedRow(id, StoreQuestion1, PyNone,
                IF kind = "nosql" THEN PyNone ELSE Sql1,
                PyNone,
                IF kind = "error" THEN PyStr("error") ELSE PyStr("success"),
                PyNone,
                IF kind = "error" THEN PyNone ELSE StoreInsight)

\* the rows of the episodes that are still in the store
StoreOf(indexed) ==
    LET rows == [i \in 1..Len(indexed) |-> [id |-> i, kind |-> indexed[i]]]
        kept(r) == r.kind # "gone"
        live == SelectSeq(rows, kept)
    IN [k \in 1..Len(live) |-> RowOfKind(live[k].id, live[k].kind)]

\* the distances of the last, farthest entry
LastDistances == {2, 7, 8, 12}

\* the question collection, nearest first
QuestionRanking(st) ==
    [i \in 1..Len(st.indexed) |->
        [episode_id |-> i,
         distance |-> IF i = Len(st.indexed) THEN st.last_distance ELSE 2]]

\* the insight collection: the episodes that were logged with an insight
InsightRanking(st) ==
    LET logged_insight(e) == st.indexed[e.episode_id] # "error"
    IN SelectSeq(QuestionRanking(st), logged_insight)

\* collection.query(n_results = n)
QueryCollection(ranking, n_results) ==
    SubSeq(ranking, 1, IF n_results < Len(ranking) THEN n_results ELSE Len(ranking))

\* max(0, 1 - distance)
Similarity(distance) == IF 10 - distance > 0 THEN 10 - distance ELSE 0

\* semantic.py 87-117 and 123-152: entries without an episode are dropped
SemanticMatches(eps, ranking, limit) ==
    LET found == QueryCollection(ranking, limit)
        has_episode(e) == get_episode(eps, PyInt(e.episode_id)) # PyNone
        live == SelectSeq(found, has_episode)
    IN [k \in 1..Len(live) |->
          [episode_id |-> live[k].episode_id,
           episode |-> get_episode(eps, PyInt(live[k].episode_id)),
           distance |-> live[k].distance,
           similarity |-> Similarity(live[k].distance)]]

\* a pattern search that asks the collection for limit entries only
find_similar_patterns_NarrowWindow(eps, ranking, limit) ==
    LET matches == SemanticMatches(eps, ranking, limit)
        ok(match) == /\ Get(match.episode, "outcome") = PyStr("success")
                     /\ Truthy(Get(match.episode, "sql"))
                     /\ match.similarity > 3
    IN QueryCollection(SelectSeq(matches, ok), limit)

\* semantic.py 169-184
find_similar_patterns(eps, ranking, limit) ==
    LET matches == SemanticMatches(eps, ranking, limit * 2)
        ok(match) == /\ Get(match.episode, "outcome") = PyStr("success")
                     /\ Truthy(Get(match.episode, "sql"))
                     /\ match.similarity > 3
    IN QueryCollection(SelectSeq(matches, ok), limit)

\* semantic.py 186-199
find_relevant_insights(eps, ranking, limit) ==
    LET matches == SemanticMatches(eps, ranking, limit)
        ok(match) == /\ Truthy(Get(match.episode, "insight"))
                     /\ match.similarity > 2
    IN QueryCollection(SelectSeq(matches, ok), limit)

\* semantic.py 201-230
get_learning_context(eps, st) ==
    LET similar_patterns == find_similar_patterns(eps, QuestionRanking(st), 3)
        relevant_insights == find_relevant_insights(eps, InsightRanking(st), 3)
    IN [similar_patterns |->
            [k \in 1..Len(similar_patterns) |->
                [episode_id |-> similar_patterns[k].episode_id,
                 question |-> similar_patterns[k].episode.question,
                 sql |-> Get(similar_patterns[k].episode, "sql"),
                 similarity |-> similar_patterns[k].similarity,
                 outcome |-> Get(similar_patterns[k].episode, "outcome")]],
        relevant_insights |->
            [k \in 1..Len(relevant_insights) |->
                [episode_id |-> relevant_insights[k].episode_id,
                 insight |-> relevant_insights[k].episode.insight,
                 original_question |-> relevant_insights[k].episode.question,
                 similarity |-> relevant_insights[k].similarity]],
        total_similar_patterns |-> Len(similar_patterns),
        total_insights |-> Len(relevant_insights)]

GetLearningContext ==
    /\ pc = "call"
    /\ result' = Ret(get_learning_context(episodes, state))
    /\ pc' = "returned"
    /\ UNCHANGED <<state, raised, consulted, invocations, episodes, semantic>>

LearningInit ==
    /\ \E n \in 0..MaxIndexed :
         \E indexed \in [1..n -> EpisodeKinds], d \in LastDistances :
            /\ state = [indexed |-> indexed, last_distance |-> d]
            /\ episodes = StoreOf(indexed)
    /\ pc = "call"
    /\ raised = PyNone
    /\ consulted = {}
    /\ invocations = 0
    /\ semantic = [questions |-> {}, insights |-> {}]
    /\ result = PyNone

LearningNext == GetLearningContext

LearningSpec == LearningInit /\ [][LearningNext]_vars

-----------------------------------------------------------------------------
(* agents/orchestrator.py 110-139: the parsing of the oracle's answer, called
   on its own *)

\* answers of the oracle, as the lines of response.text
OracleAnswers ==
    {Text(<<"PLAN", "No plan exists yet.">>),
     Text(<<" plan ">>),
     Text(<<"DONE", "Do not EXECUTE again.">>),
     Text(<<"I would PLAN first, then EXECUTE">>),
     Text(<<"Next: summarize">>),
     Text(<<"The explanation is unclear">>),
     Text(<<"no idea">>),
     Text(<<"">>)}

\* lines[0].strip().upper()
StripUpper(line) ==
    CASE line = " plan " -> "PLAN"
      [] line = "I would PLAN first, then EXECUTE" -> "I WOULD PLAN FIRST, THEN EXECUTE"
      [] line = "Next: summarize" -> "NEXT: SUMMARIZE"
      [] line = "The explanation is unclear" -> "THE EXPLANATION IS UNCLEAR"
      [] line = "no idea" -> "NO IDEA"
      [] OTHER -> Upper(Strip(line))

\* the enumerated actions that are substrings of decision_text.upper(), in
\* the order of their first occurrence
TokensIn(text) ==
    CASE text = Text(<<"PLAN", "No plan exists yet.">>) -> <<"PLAN">>
      [] text = Text(<<" plan ">>) -> <<"PLAN">>
      [] text = Text(<<"DONE", "Do not EXECUTE again.">>) -> <<"DONE", "EXECUTE">>
      [] text = Text(<<"I would PLAN first, then EXECUTE">>) -> <<"PLAN", "EXECUTE">>
      [] text = Text(<<"Next: summarize">>) -> <<"SUMMARIZE">>
      [] text = Text(<<"The explanation is unclear">>) -> <<"PLAN">>
      [] OTHER -> <<>>

\* lines 110-139. valid_actions is a set: the loop of lines 127-130 meets its
\* members in an order that changes from one interpreter start to the next,
\* and stops at the first that occurs in the text
ParseDecision(text, st) ==
    LET action == StripUpper(text.lines[1])
        found == {TokensIn(text)[i] : i \in 1..Len(TokensIn(text))}
    IN IF action \in ValidActions THEN {Ret(PyStr(action))}
       ELSE IF found # {} THEN {Ret(PyStr(a)) : a \in found}
       ELSE {_fallback_decision(st)}

ParseStates ==
    {AgentState(QuestionPlain, plan, sql, rows, PyNone, Tools1, history, 1, MaxSteps) :
        plan \in {PyList(<<>>), Plan1}, sql \in {PyNone, Sql1}, rows \in {PyNone, Rows1},
        history \in Histories(FnRecords, 1)}

Call_parse_decision ==
    /\ pc = "call"
    /\ \E text \in OracleAnswers :
         \E out \in ParseDecision(text, state) :
            result' = [fn |-> "parse_decision", arg |-> text, out |-> out]
    /\ pc' = "returned"
    /\ UNCHANGED <<state, raised, consulted, invocations, episodes, semantic>>

ParseInit ==
    /\ state \in ParseStates
    /\ pc = "call"
    /\ NoCalls

ParseNext == Call_parse_decision

ParseSpec == ParseInit /\ [][ParseNext]_vars

-----------------------------------------------------------------------------
(* Properties *)

LastRecord(history) == history[Len(history)]

\* an orchestrator_node invocation starts in this state within its budget
WithinBudget == pc = "orchestrator" /\ state.step + 1 <= state.max_steps

C2_RunTerminatesByDecision ==
    /\ invocations <= state.max_steps + 1
    /\ (pc = "raised" => raised.node # "orchestrator")
    /\ (pc = "END" =>
          /\ state.next_action = PyStr("DONE")
          /\ Get(LastRecord(state.history), "agent") = OrchestratorAgent)

\* C3: after every orchestrator_node invocation next_action is one of the
\* seven enumerated actions.
C3_NextActionEnumerated ==
    invocations > 0 =>
        /\ IsStr(state.next_action)
        /\ state.next_action.str \in ValidActions

\* C4: an invocation that has passed the guards always returns; when it
\* returns by the error-fallback path, next_action is the fallback tree's
\* result for the state, one error_fallback record is appended and error
\* holds a diagnostic.
C4_FailureFallsBack ==
    [][(WithinBudget /\ ~LoopDetected(state.history)) =>
          /\ pc' = "route"
          /\ Len(state'.history) = Len(state.history) + 1
          /\ (Get(LastRecord(state'.history), "action") = PyStr("error_fallback") =>
                /\ Ret(state'.next_action) = _fallback_decision(state)
                /\ Truthy(state'.error))]_vars

\* C5: _fallback_decision returns one of the seven enumerated actions for
\* every Run State, without raising and without changing the Run State.
C5_FallbackTotalAndPure ==
    [][pc = "call" =>
          /\ state' = state
          /\ ~Raises(result'.out)
          /\ IsStr(result'.out.ret)
          /\ result'.out.ret.str \in ValidActions]_vars

\* what the claims call "an insight is present": some summarizer record holds
\* a non-empty insight, flat or nested under response
RecordHasInsight(entry) ==
    /\ "summarizer" \in DOMAIN entry
    /\ IsDict(entry.summarizer)
    /\ LET response_data == DictGet(entry.summarizer, "response", entry.summarizer)
       IN /\ IsDict(response_data)
          /\ Truthy(DictGet(response_data, "insight", PyStr("")))
          /\ (IsStr(response_data.dict.insight) => Strip(response_data.dict.insight.str) # "")

InsightPresent(history) == \E i \in 1..Len(history) : RecordHasInsight(history[i])

\* the reflection attempts the reflection stage has recorded
ReflectionAttempts(history) ==
    Cardinality({i \in 1..Len(history) : "reflector" \in DOMAIN history[i]})

\* the ordered table of C6, first match wins
FallbackTable(st) ==
    IF ~Truthy(st.available_tools) /\ ~ToolInspectionDone(st.history) THEN "INSPECT_TOOLS"
    ELSE IF RealError(st) /\ ReflectionAttempts(st.history) < 2 THEN "REFLECT"
    ELSE IF ~Truthy(st.plan) THEN "PLAN"
    ELSE IF Truthy(st.plan) /\ Truthy(st.sql) /\ ~Truthy(st.rows) THEN "EXECUTE"
    ELSE IF PdfRequested(st.question) /\ Truthy(st.rows) /\ InsightPresent(st.history)
            /\ PdfGenerated(st.history) THEN "DONE"
    ELSE IF PdfRequested(st.question) /\ Truthy(st.rows) /\ InsightPresent(st.history)
    THEN "GENERATE_PDF"
    ELSE IF Truthy(st.rows) /\ ~InsightPresent(st.history) THEN "SUMMARIZE"
    ELSE "DONE"

\* C6: for every Run State _fallback_decision equals the first matching rule
\* of the ordered table.
C6_FallbackFollowsTable ==
    pc = "returned" => result.out = Ret(PyStr(FallbackTable(state)))

\* the decisions the Policy Engine has recorded in the whole history
RECURSIVE RecordedDecisions(_)
RecordedDecisions(entries) ==
    IF entries = <<>> THEN <<>>
    ELSE LET entry == Head(entries)
             rest == RecordedDecisions(Tail(entries))
         IN IF Get(entry, "agent") = OrchestratorAgent /\ "decision" \in DOMAIN entry
            THEN <<entry.decision>> \o rest
            ELSE rest

ThreeSameDecisions(history) ==
    LET d == RecordedDecisions(history)
    IN Len(d) >= 3 /\ d[Len(d)] = d[Len(d) - 1] /\ d[Len(d)] = d[Len(d) - 2]

LastDecision(history) ==
    LET d == RecordedDecisions(history) IN d[Len(d)]

\* C7: when the three most recent recorded decisions are the same action and
\* the budget is not exhausted, the next invocation chooses the forced
\* progression of that action, which differs from it, whatever stage records
\* lie between the three decisions.
C7_RepeatedDecisionIsBroken ==
    [][(WithinBudget /\ ThreeSameDecisions(state.history)) =>
          /\ state'.next_action = _force_progression(state, LastDecision(state.history))
          /\ state'.next_action # LastDecision(state.history)]_vars

\* C8: within budget, the loop detector reads the last 5 records; when the
\* last 3 collected decisions are identical the oracle is not called,
\* next_action is the forced progression and exactly one loop_breaker record
\* naming both actions is appended; otherwise the invocation calls the oracle.
C8_LoopDetectorOrOracle ==
    [][WithinBudget =>
          IF LoopDetected(state.history)
          THEN /\ "llm.generate" \notin consulted'
               /\ state'.next_action =
                      _force_progression(state, RepeatedAction(state.history))
               /\ state'.history = Append(state.history,
                      LoopBreakerRecord(RepeatedAction(state.history),
                                        state'.next_action, state.step + 1))
          ELSE "llm.generate" \in consulted']_vars

\* the forced progression as C9 states it; where the claim names no result
\* ("when tools are available", "when a plan exists") it allows any
ClaimedProgression(st, repeated_action, out) ==
    /\ (repeated_action = PyStr("INSPECT_TOOLS") /\ Truthy(st.available_tools)
           => out = PyStr("PLAN"))
    /\ (repeated_action = PyStr("PLAN") /\ Truthy(st.plan) => out = PyStr("EXECUTE"))
    /\ (repeated_action = PyStr("EXECUTE")
           => out = IF Truthy(st.rows) THEN PyStr("SUMMARIZE") ELSE PyStr("REFLECT"))
    /\ (repeated_action = PyStr("REFLECT") => out = PyStr("DONE"))
    /\ (repeated_action \notin {PyStr("INSPECT_TOOLS"), PyStr("PLAN"), PyStr("EXECUTE"),
                                PyStr("REFLECT")} => out = PyStr("DONE"))

\* C9 as stated: EXECUTE -> SUMMARIZE when rows exist and REFLECT otherwise
C9_ForcedProgressionAsStated ==
    pc = "returned" => ClaimedProgression(state, result.arg, result.out.ret)

\* C9 amended: EXECUTE -> SUMMARIZE or REFLECT only when sql is present;
\* a repeated action whose condition does not hold (INSPECT_TOOLS without
\* tools, PLAN without a plan, EXECUTE without sql) -> DONE.
C9_ForcedProgression ==
    pc = "returned" =>
        LET rep == result.arg
            out == result.out.ret
        IN /\ (rep = PyStr("INSPECT_TOOLS") =>
                 out = IF Truthy(state.available_tools) THEN PyStr("PLAN") ELSE PyStr("DONE"))
           /\ (rep = PyStr("PLAN") =>
                 out = IF Truthy(state.plan) THEN PyStr("EXECUTE") ELSE PyStr("DONE"))
           /\ (rep = PyStr("EXECUTE") /\ Truthy(state.sql) /\ Truthy(state.rows) =>
                 out = PyStr("SUMMARIZE"))
           /\ (rep = PyStr("EXECUTE") /\ Truthy(state.sql) /\ ~Truthy(state.rows) =>
                 out = PyStr("REFLECT"))
           /\ (rep = PyStr("EXECUTE") /\ ~Truthy(state.sql) => out = PyStr("DONE"))
           /\ (rep \notin {PyStr("INSPECT_TOOLS"), PyStr("PLAN"), PyStr("EXECUTE")} =>
                 out = PyStr("DONE"))

\* EXECUTE was the repeated action of a state without sql
C9_Witness ==
    /\ pc = "returned"
    /\ result.arg = PyStr("EXECUTE")
    /\ ~Truthy(state.sql)
    /\ Truthy(state.rows)
    /\ result.out = Ret(PyStr("DONE"))

\* C10: with sql non-empty and rows null the decision is EXECUTE, on the
\* fallback path as for every oracle answer.
C10_SqlWithoutRowsExecutes ==
    pc = "returned" =>
        (Truthy(state.sql) /\ IsNone(state.rows) => result.out = Ret(PyStr("EXECUTE")))

\* C11: with rows non-empty and no summarizer record holding a non-empty
\* insight, _fallback_decision returns SUMMARIZE, whatever the other fields.
C11_RowsWithoutInsightSummarize ==
    pc = "returned" =>
        (Truthy(state.rows) /\ ~InsightPresent(state.history)
            => result.out = Ret(PyStr("SUMMARIZE")))

\* the tools, the plan and the sql are there and the rows are not
ReadyToExecute(st) ==
    /\ Truthy(st.available_tools) /\ Truthy(st.plan)
    /\ Truthy(st.sql) /\ ~Truthy(st.rows)

\* C12: a state whose error is a state indicator gets the action of the same
\* state with error = None, never REFLECT on its account, and EXECUTE when
\* tools, plan and sql are present and rows are absent.
C12_PseudoErrorIsNoError ==
    pc = "returned" =>
        (Truthy(state.error) /\ state.error.str \in StateIndicators =>
            /\ result.out = _fallback_decision([state EXCEPT !.error = PyNone])
            /\ result.out # Ret(PyStr("REFLECT"))
            /\ (ReadyToExecute(state) => result.out = Ret(PyStr("EXECUTE"))))

\* C13: once the reflection stage has recorded two attempts in history,
\* _fallback_decision does not return REFLECT again.
C13_AtMostTwoReflections ==
    pc = "returned" =>
        (ReflectionAttempts(state.history) >= 2 => result.out # Ret(PyStr("REFLECT")))

\* a render record that names the path it produced
RenderedWithPath(history) ==
    \E i \in 1..Len(history) :
        /\ Get(history[i], "role") = PyStr("pdf_generator")
        /\ Truthy(Get(history[i], "pdf_path"))

\* C14: a pdf is requested, rows, an insight, a plan and tools are present:
\* GENERATE_PDF while no render record with a path is in history, DONE once
\* one is.
C14_PdfGeneratedOnce ==
    pc = "returned" =>
        ((/\ PdfRequested(state.question) /\ Truthy(state.rows)
          /\ InsightPresent(state.history)
          /\ Truthy(state.plan) /\ Truthy(state.available_tools)
          /\ ~RealError(state))
            => result.out = IF RenderedWithPath(state.history)
                            THEN Ret(PyStr("DONE"))
                            ELSE Ret(PyStr("GENERATE_PDF")))

\* C15: every orchestrator_node invocation, on whatever path, increases step
\* by exactly 1; no other operation changes step, and none changes max_steps:
\* step grows with the count of invocations and with nothing else.
C15_StepCountsInvocations ==
    [][/\ state'.max_steps = state.max_steps
       /\ IF pc = "orchestrator"
          THEN state'.step = state.step + 1 /\ invocations' = invocations + 1
          ELSE state'.step = state.step /\ invocations' = invocations]_vars

\* a run started at step 0 has made two invocations, a stage in between
C15_Witness ==
    /\ invocations = 2
    /\ state.step = 2
    /\ Len(state.history) >= 5
    /\ Get(LastRecord(state.history), "role") = PyStr("executor")

\* h is an initial part of g
IsPrefix(h, g) == Len(h) <= Len(g) /\ SubSeq(g, 1, Len(h)) = h

\* C16: the history before an operation is a prefix of the history after it,
\* for orchestrator_node and for every stage operation.
C16_HistoryAppendOnly ==
    [][IsPrefix(state.history, state'.history)]_vars

\* a stage and the Policy Engine have both appended to a history of three
C16_Witness ==
    /\ Len(state.history) = 6
    /\ Get(state.history[4], "action") = PyStr("loop_breaker")
    /\ "summarizer" \in DOMAIN state.history[5]
    /\ Get(state.history[6], "action") = PyStr("circuit_breaker")

\* the call that has just returned is a call of fn
Called(r, fn) == "fn" \in DOMAIN r /\ r.fn = fn

\* C17: get_episode of the id log_episode has just returned yields a row
\* whose question, plan and sql are the logged ones, for a plan that is a list
\* of steps, an empty list or None and an sql that is a text or None;
\* get_episode of an id log_episode never returned yields None.
C17_LogThenGetRoundTrip ==
    [][Called(result', "get_episode") =>
          /\ (Called(result, "log_episode") /\ Ret(result'.arg) = result.out =>
                LET row == result'.out.ret
                IN /\ row # PyNone
                   /\ Get(row, "question") = result.arg.question
                   /\ Get(row, "plan") = result.arg.plan
                   /\ Get(row, "sql") = result.arg.sql)
          /\ (result'.arg.int \notin 1..Len(episodes) => result'.out = Ret(PyNone))]_vars

\* the second episode, logged with an empty plan, has been read back
C17_Witness ==
    /\ pc = "read"
    /\ Called(result, "get_episode")
    /\ result.arg = PyInt(2)
    /\ result.out.ret # PyNone
    /\ Get(result.out.ret, "plan") = PyList(<<>>)
    /\ Get(result.out.ret, "sql") = PyStr("SELECT 1")
    /\ Get(result.out.ret, "insight") = PyNone

\* the column a keyword argument of update_episode names
WrittenColumn(k) ==
    IF k = "plan" THEN "plan_json" ELSE IF k = "rows" THEN "rows_json" ELSE k

\* C18: update_episode(id, **fields) returns, sets the named fields of the
\* row keyed by id to the given values and leaves every other field of it and
\* every other row as it was; it creates no row.
C18_UpdatePatchesNamedFields ==
    [][Called(result', "update_episode") =>
          LET fields == result'.arg.fields
          IN /\ ~Raises(result'.out)
             /\ Len(episodes') = Len(episodes)
             /\ \A i \in 1..Len(episodes) :
                   IF episodes[i].id # result'.arg.ep_id THEN episodes'[i] = episodes[i]
                   ELSE \A c \in DOMAIN episodes[i] :
                           IF c \in DOMAIN fields THEN episodes'[i][c] = fields[c]
                           ELSE IF c = "rows_json" /\ "rows" \in DOMAIN fields
                           THEN JsonLoads(episodes'[i][c]) = Ret(fields.rows)
                           ELSE IF c = "plan_json" /\ "plan" \in DOMAIN fields
                           THEN JsonLoads(episodes'[i][c]) = Ret(fields.plan)
                           ELSE episodes'[i][c] = episodes[i][c]]_vars

\* C19: on a store that holds no episodes, search_similar and
\* recent_successes return an empty sequence and do not raise, whatever the
\* query text is.
C19_EmptyStoreReadsAreEmpty ==
    [][(/\ Called(result', "search_similar") \/ Called(result', "recent_successes")
        /\ episodes = <<>>)
          => result'.out = Ret(<<>>)]_vars

\* the empty store was searched with a text that is not an FTS5 query
C19_Witness ==
    /\ pc = "read"
    /\ Called(result, "search_similar")
    /\ episodes = <<>>
    /\ Raises(QueryTokens(result.arg.q))
    /\ result.out = Ret(<<>>)

\* C20: after any log_episode and update_episode calls, recent_successes(limit)
\* returns at most limit episodes, all with outcome success and non-null sql,
\* as the store holds them, in descending id, and no success it leaves out is
\* newer than one it returns.
C20_RecentSuccessesNewestFirst ==
    [][Called(result', "recent_successes") =>
          LET limit == result'.arg
              out == result'.out.ret
              successes == {i \in 1..Len(episodes) :
                              /\ episodes[i].outcome = PyStr("success")
                              /\ episodes[i].sql # PyNone}
              n == IF Cardinality(successes) < limit THEN Cardinality(successes) ELSE limit
          IN /\ Len(out) = n
             /\ \A k \in 1..n : /\ out[k].id \in successes
                                /\ out[k] = ParsedEpisode(episodes[out[k].id])
             /\ \A k \in 1..(n - 1) : out[k].id > out[k + 1].id
             /\ \A i \in successes :
                   (\A k \in 1..n : out[k].id # i) => \A k \in 1..n : i < out[k].id]_vars

\* of two successes the limit of 1 kept the newer one, which became a success
\* by an update
C20_Witness ==
    /\ pc = "read"
    /\ Called(result, "recent_successes")
    /\ result.arg = 1
    /\ Len(episodes) = 2
    /\ IsRecentSuccess(episodes[1]) /\ IsRecentSuccess(episodes[2])
    /\ episodes[2].rows_json = JsonDumps(Rows1)
    /\ Len(result.out.ret) = 1
    /\ result.out.ret[1].id = 2

\* the rows a read has returned
ReturnedRows(r) ==
    IF Called(r, "get_episode")
    THEN IF r.out.ret = PyNone THEN {} ELSE {r.out.ret}
    ELSE {r.out.ret[k] : k \in 1..Len(r.out.ret)}

\* C21: a read returns a row whose plan_json or rows_json is not JSON with
\* plan None, respectively rows [], and every column as stored; the read does
\* not raise, and the other rows it returns are parsed as usual.
C21_MalformedFieldDegraded ==
    [][pc' = "read" =>
          /\ ~Raises(result'.out)
          /\ \A row \in ReturnedRows(result') :
                LET stored == episodes[row.id]
                IN /\ \A c \in DOMAIN stored : row[c] = stored[c]
                   /\ Get(row, "plan") =
                         IF stored.plan_json = PyNone \/ stored.plan_json \in MalformedTexts
                         THEN PyNone ELSE stored.plan_json.json
                   /\ Get(row, "rows") =
                         IF stored.rows_json \in MalformedTexts
                         THEN PyList(<<>>) ELSE stored.rows_json.json]_vars

\* the runs that have logged their episode
LoggedRuns == {r \in Runs : ~IsNone(state[r].episode_id)}

\* C22: with runs interleaving on the store, the ids log_episode returns are
\* pairwise distinct, every logged row stays in the table under its id, and
\* a write changes no row but the writing run's own; a transaction's writes
\* appear in the table all at once, at its commit.
C22_ConcurrentWritesKeepRows ==
    /\ [](\A r \in LoggedRuns :
             /\ \A q \in LoggedRuns : q # r => state[q].episode_id # state[r].episode_id
             /\ \E i \in 1..Len(episodes) :
                   /\ PyInt(episodes[i].id) = state[r].episode_id
                   /\ episodes[i].question = RunQuestion(r))
    /\ [][\A i \in 1..Len(episodes) :
             /\ i <= Len(episodes')
             /\ episodes'[i] # episodes[i] =>
                   \E r \in Runs : /\ pc[r] \in {"executing", "summarizing"}
                                   /\ pc'[r] \notin {"executing", "summarizing"}
                                   /\ state[r].episode_id = PyInt(episodes[i].id)
                                   /\ episodes'[i] = result[r].tx.table[i]]_vars

\* run 2 logged before run 1, and both rows carry their run's updates
C22_Witness ==
    /\ Len(episodes) = 2
    /\ episodes[1].question = RunQuestion(2)
    /\ state[1].episode_id = PyInt(2)
    /\ episodes[1].insight = StoreInsight
    /\ episodes[2].outcome = PyStr("success")
    /\ pc[1] = "done" /\ pc[2] = "done"

\* the executor records of a history
ExecutorRuns(history) ==
    {i \in 1..Len(history) : Get(history[i], "role") = PyStr("executor")}

\* C23: episode_id is None until executor_node logs the run's episode; that
\* step adds exactly one row and sets episode_id to its id; from then on
\* episode_id keeps its value, no row is added, and every write of the store
\* goes to the row with that id.
C23_OneEpisodePerRun ==
    /\ [](/\ Len(episodes) <= 1
          /\ IsNone(state.episode_id) <=> episodes = <<>>
          /\ ~IsNone(state.episode_id) => state.episode_id = PyInt(episodes[1].id))
    /\ [][/\ ~IsNone(state.episode_id) =>
                /\ state'.episode_id = state.episode_id
                /\ Len(episodes') = Len(episodes)
                /\ \A i \in 1..Len(episodes) :
                      episodes'[i] # episodes[i] => PyInt(episodes[i].id) = state.episode_id
          /\ IsNone(state.episode_id) /\ ~IsNone(state'.episode_id) =>
                /\ pc = "executor"
                /\ Len(episodes') = Len(episodes) + 1]_vars

\* a second execution has written the row the first one logged
C23_Witness ==
    /\ Cardinality(ExecutorRuns(state.history)) >= 2
    /\ Len(episodes) = 1
    /\ state.episode_id = PyInt(1)
    /\ ~IsNone(episodes[1].outcome)

\* C24: no call of the store or of the index ends a run: whenever one of
\* them raises, the calling node catches it and returns.
C24_StoreFailureCaught ==
    ~(pc = "raised" /\ raised.type = "StoreError")

\* C25: for every max_retries, generate makes at most max_retries requests;
\* it returns the text and raw answer of the first request that succeeds,
\* never anything else; it raises after exactly max_retries failed requests;
\* between requests i and i+1 it sleeps BackoffDelay(i), and not after the
\* last request.
C25_RetryWithBackoff ==
    /\ state.requests <= state.max_retries
    /\ \A i \in 1..Len(state.sleeps) : state.sleeps[i] = BackoffDelay(i - 1)
    /\ pc = "returned" =>
          /\ ~Raises(result) /\ ~IsNone(result.ret)
          /\ DOMAIN result.ret = {"text", "raw"}
          /\ Len(state.sleeps) = state.requests - 1
    /\ pc = "raised" =>
          /\ Raises(result)
          /\ state.requests = state.max_retries
          /\ Len(state.sleeps) = state.requests - 1

\* C26: generate of the wrapper calls the primary once; when that returns,
\* its response is returned and the fallback backend is not called; when it
\* raises, the fallback backend is called once with the same parameters and
\* its response returned; when both raise, the canned response is returned
\* if and only if both messages look rate-limited, and otherwise the
\* primary's exception is raised.
C26_FailoverOrder ==
    pc \in {"returned", "raised"} =>
        /\ state.primary_calls = <<state.params>>
        /\ IF IsNone(state.e)
           THEN /\ state.fallback_calls = <<>>
                /\ ~Raises(result) /\ result.ret.raw = [llm |-> "primary"]
           ELSE /\ state.fallback_calls = state.primary_calls
                /\ IF IsNone(state.fallback_error)
                   THEN ~Raises(result) /\ result.ret.raw = [llm |-> "fallback"]
                   ELSE IF /\ LooksRateLimited(state.e.raise.msg)
                           /\ LooksRateLimited(state.fallback_error.raise.msg)
                   THEN /\ ~Raises(result)
                        /\ result.ret.raw = [fallback |-> TRUE]
                   ELSE result = state.e

\* both backends failed, one of them not for rate limits
C26_Witness ==
    /\ pc = "raised"
    /\ result.raise.llm = "primary"
    /\ LooksRateLimited(result.raise.msg)
    /\ ~LooksRateLimited(state.fallback_error.raise.msg)

\* the canned response has been returned
CannedReturned ==
    pc = "returned" /\ result.ret.raw = [fallback |-> TRUE]

\* C27: the canned response to an orchestration prompt is a text whose first
\* line is one of the seven actions; to a stage prompt, and to any prompt
\* with json_mode set, it is a text that parses as JSON.
C27_CannedResponseParses ==
    CannedReturned =>
        LET text == result.ret.text
            prompt == state.params.prompt
        IN IF state.params.json_mode \/ prompt.kind = "stage"
           THEN ~Raises(JsonLoads(text))
           ELSE IsText(text) /\ text.lines[1] \in ValidActions

\* the entry of a ranking is a success with sql and similarity above 0.3
QualifiesAsPattern(e) ==
    /\ state.indexed[e.episode_id] = "success"
    /\ Similarity(e.distance) > 3

\* the entry of a ranking has a stored insight and similarity above 0.2
QualifiesAsInsight(e) ==
    /\ state.indexed[e.episode_id] \in {"success", "nosql"}
    /\ Similarity(e.distance) > 2

\* the positions of the ranking whose entries qualify
QualifyingPositions(ranking, Qualifies(_)) ==
    {i \in 1..Len(ranking) : Qualifies(ranking[i])}

\* out lists entries of the window's qualifying positions, nearest first,
\* at most 3, and leaves out none of the first 3 of them
SelectsFromWindow(out, ranking, window, Qualifies(_)) ==
    LET qualifying == QualifyingPositions(ranking, Qualifies) \cap 1..window
        position(k) == CHOOSE i \in 1..Len(ranking) :
                           ranking[i].episode_id = out[k].episode_id
    IN /\ Len(out) <= 3
       /\ \A k \in 1..Len(out) :
             /\ \E i \in qualifying : ranking[i].episode_id = out[k].episode_id
             /\ out[k].similarity = Similarity(ranking[position(k)].distance)
       /\ \A k \in 1..(Len(out) - 1) : position(k) < position(k + 1)
       /\ \A i \in qualifying :
             \/ \E k \in 1..Len(out) : out[k].episode_id = ranking[i].episode_id
             \/ Cardinality({j \in qualifying : j < i}) >= 3

\* C28 as stated: similar_patterns and relevant_insights are the first 3
\* qualifying entries of the whole question and insight collections, in
\* ranked order.
C28_FirstThreeQualifying ==
    pc = "returned" =>
        /\ SelectsFromWindow(result.ret.similar_patterns, QuestionRanking(state),
                             Len(QuestionRanking(state)), QualifiesAsPattern)
        /\ SelectsFromWindow(result.ret.relevant_insights, InsightRanking(state),
                             Len(InsightRanking(state)), QualifiesAsInsight)

\* C28, amended: similar_patterns are the first 3 qualifying entries among
\* the 6 nearest of the question collection, relevant_insights the
\* qualifying entries among the 3 nearest of the insight collection, in
\* ranked order.
C28_FirstThreeOfWindow ==
    pc = "returned" =>
        /\ SelectsFromWindow(result.ret.similar_patterns, QuestionRanking(state), 6,
                             QualifiesAsPattern)
        /\ SelectsFromWindow(result.ret.relevant_insights, InsightRanking(state), 3,
                             QualifiesAsInsight)

\* four of the six nearest questions qualify, three are returned, and one
\* insight of the three nearest is returned
C28_Witness ==
    /\ pc = "returned"
    /\ Cardinality(QualifyingPositions(QuestionRanking(state), QualifiesAsPattern)
                   \cap 1..6) = 4
    /\ Len(result.ret.similar_patterns) = 3
    /\ Len(result.ret.relevant_insights) = 1

\* the nodes of the graph that are stage operations
StageNodes == GraphNodes \ {"orchestrator"}

\* C29: no stage operation raises: when a call it makes fails, it returns
\* the Run State with error set, and the orchestrator is next.
C29_StagesNeverRaise ==
    pc = "raised" => raised.node \notin StageNodes

\* C30: the decision parsed from the oracle's answer is the first line,
\* stripped and uppercased, when that is one of the seven actions; otherwise
\* the first enumerated action that occurs in the uppercased text; otherwise
\* the result of _fallback_decision for the Run State.
C30_ParsedDecision ==
    pc = "returned" =>
        LET text == result.arg
            action == StripUpper(text.lines[1])
        IN result.out =
              IF action \in ValidActions THEN Ret(PyStr(action))
              ELSE IF TokensIn(text) # <<>> THEN Ret(PyStr(TokensIn(text)[1]))
              ELSE _fallback_decision(state)

\* C31: while error holds the diagnostic of the error-fallback path, the
\* decision context reports no error and _fallback_decision does not answer
\* REFLECT.
C31_DiagnosticIsNoError ==
    (pc = "returned" /\ state.error = OrchestratorFailed) =>
        /\ result.out # Ret(PyStr("REFLECT"))
        /\ \A learning_context \in LearningContexts :
              LET context == _build_decision_context(state, learning_context)
              IN ~Raises(context) => ~context.ret.has_error

\* the action an orchestrator record names
NamedAction(record) ==
    IF record.action = PyStr("circuit_breaker") THEN PyStr("DONE")
    ELSE IF record.action = PyStr("loop_breaker") THEN record.forced_action
    ELSE IF record.action = PyStr("error_fallback") THEN record.fallback_action
    ELSE Get(record, "decision")

\* C32: every invocation of orchestrator_node appends exactly one record of
\* agent orchestrator whose step is the number of the invocation, and leaves
\* next_action equal to the action that record names.
C32_OneRecordPerInvocation ==
    [][pc = "orchestrator" =>
          /\ Len(state'.history) = Len(state.history) + 1
          /\ state'.history = Append(state.history, LastRecord(state'.history))
          /\ LastRecord(state'.history).agent = OrchestratorAgent
          /\ LastRecord(state'.history).step = PyInt(state.step + 1)
          /\ state'.next_action = NamedAction(LastRecord(state'.history))]_vars

\* the stage the graph names for an action the Policy Engine chose
MappedStage(next_action) ==
    IF next_action = PyStr("INSPECT_TOOLS") THEN "tool_inspector"
    ELSE IF next_action = PyStr("PLAN") THEN "planner"
    ELSE IF next_action = PyStr("EXECUTE") THEN "executor"
    ELSE IF next_action = PyStr("REFLECT") THEN "reflector"
    ELSE IF next_action = PyStr("SUMMARIZE") THEN "summarizer"
    ELSE IF next_action = PyStr("GENERATE_PDF") THEN "pdf_generator"
    ELSE "END"

\* C33: after the orchestrator chose an action, exactly the mapped stage runs
\* next and the orchestrator runs after that stage; when the action is DONE,
\* unset or unrecognized the run ends and nothing runs afterwards.
C33_MappedStageThenEngine ==
    [][/\ (pc = "route" => pc' = MappedStage(state.next_action))
       /\ (pc \in StageNodes => pc' = "orchestrator")
       /\ pc # "END"]_vars

\* a summarizer record carrying a non-empty insight, flat or under response
CarriesInsight(entry) ==
    /\ "summarizer" \in DOMAIN entry
    /\ IsDict(entry.summarizer)
    /\ LET response_data == DictGet(entry.summarizer, "response", entry.summarizer)
       IN /\ IsDict(response_data)
          /\ IsStr(DictGet(response_data, "insight", PyStr("")))
          /\ Strip(DictGet(response_data, "insight", PyStr("")).str) # ""

\* C34: the fallback tree and the decision context see an insight exactly
\* when some summarizer record of the history carries a non-empty insight,
\* whatever its position among the summarizer records.
C34_InsightSeenAtAnyPosition ==
    pc = "returned" =>
        LET present == \E i \in 1..Len(state.history) : CarriesInsight(state.history[i])
        IN /\ FallbackHasInsights(state.history) = Ret(present)
           /\ ContextHasInsights(state.history) = Ret(present)

\* C35: an execution that fails, or is skipped for lack of sql, leaves rows
\* as it was; rows is assigned only by an execution that succeeds.
C35_RowsOnlyOnSuccess ==
    [][(pc = "executor" /\ Truthy(state'.error)) => state'.rows = state.rows]_vars

\* the stages that report no failure of their own through error
QuietStages == {"planner", "reflector", "summarizer"}

\* C36: a stage that completes without failure leaves error null, clearing an
\* error an earlier stage left: here for planning, reflection and
\* summarization, which set no error themselves.
C36_CompletedStageClearsError ==
    [][(pc \in QuietStages /\ pc' = "orchestrator") => state'.error = PyNone]_vars

\* what a scan of the history says about the insight: yes, no, or it raises
InsightVerdict(scan) ==
    IF Raises(scan) THEN "raises" ELSE IF scan.ret THEN "yes" ELSE "no"

\* the render stage's answer: `if not insight` on the value it extracted
RenderVerdict(scan) ==
    IF Raises(scan) THEN "raises" ELSE IF Truthy(scan.ret) THEN "yes" ELSE "no"

\* C37: for every history the fallback tree, the decision context and the
\* render stage give the same answer on whether a summarizer insight exists,
\* so a GENERATE_PDF chosen on an insight is never met by "no insight".
C37_InsightScansAgree ==
    pc = "returned" =>
        /\ InsightVerdict(FallbackHasInsights(state.history))
              = InsightVerdict(ContextHasInsights(state.history))
        /\ InsightVerdict(FallbackHasInsights(state.history))
              = RenderVerdict(PdfInsight(state.history))

\* C38: once update_episode has stored a non-empty insight on an existing
\* episode, the insight collection of the index holds that insight tagged
\* with the episode's id.
C38_StoredInsightIsIndexed ==
    (/\ ~IsNone(result)
     /\ result.fn = "update_episode"
     /\ ~Raises(result.out)
     /\ result.arg.ep_id \in 1..Len(episodes)
     /\ "insight" \in DOMAIN result.arg.fields
     /\ Truthy(result.arg.fields.insight)) =>
        [episode_id |-> result.arg.ep_id, document |-> result.arg.fields.insight]
            \in semantic.insights

\* C39: the decision is a function of the Run State and the oracle's text:
\* the action an invocation parsed is the only one any invocation on the same
\* Run State and text can parse, whether or not the first line is a token.
C39_SameInputsSameAction ==
    pc = "returned" =>
        \A out \in ParseDecision(result.arg, state) : out = result.out

\* the positions of the orchestrator's records in a history
ByOrchestrator(history) ==
    {i \in 1..Len(history) : Get(history[i], "agent") = OrchestratorAgent}

\* the latest record of the orchestrator is a loop_breaker record
LoopBreakerWasLast(history) ==
    /\ ByOrchestrator(history) # {}
    /\ LET last == CHOOSE i \in ByOrchestrator(history) :
                       \A j \in ByOrchestrator(history) : j <= i
       IN Get(history[last], "action") = PyStr("loop_breaker")

====
